---- MODULE Spec2Model ----
(***************************************************************************)
(* Entity-resolution and normalization engine of the alcohol catalogue     *)
(* scripts: duplicate grouping (exact and fuzzy), record merging, and the  *)
(* callers that hand the result on.                                        *)
(*                                                                         *)
(* A string that the code trims, lower-cases, concatenates or compares by  *)
(* similarity (brand_name, product_name) is a sequence of one-character    *)
(* strings.  A string of which the code reads only emptiness and equality  *)
(* (image_url, price, lcbo_id, source, category, subcategory) is a TLA+    *)
(* string.  A Python dict is a record; the field `row` stands for the      *)
(* identity of the dict object (its position in the list it was read in).  *)
(***************************************************************************)
EXTENDS Integers, Sequences, FiniteSets, TLC

VARIABLES
  \* duplicate detection, merging and brand consolidation
  products, use_exact_matching, similarity_threshold, duplicates,
  merged_products, final_products,
  \* backup restoration
  current_products, backup_data, backup_column_mapping, fuzzy_match_threshold,
  updated_products, current_product, best_match, best_score,
  \* the similarity scores
  str1, str2, similarity,
  \* subcategory normalization
  subcategory, normalized, normalized_again,
  \* the field index
  headers, column_mapping,
  \* a run of the orchestrator or of one of the scripts
  script, config, confirm, stages, sheet_updates,
  \* the sheet of the duplicate-removal script
  existing_data, duplicate_row_indices, delete_requests,
  \* the step reached
  pc

dedup_vars == <<products, use_exact_matching, similarity_threshold, duplicates,
                merged_products, final_products>>
restorer_vars == <<current_products, backup_data, backup_column_mapping,
                   fuzzy_match_threshold, updated_products, current_product,
                   best_match, best_score>>
scorer_vars == <<str1, str2, similarity>>
normalizer_vars == <<subcategory, normalized, normalized_again>>
mapping_vars == <<headers, column_mapping>>
run_vars == <<script, config, confirm, stages, sheet_updates>>
sheet_vars == <<existing_data, duplicate_row_indices, delete_requests>>

vars == <<dedup_vars, restorer_vars, scorer_vars, normalizer_vars, mapping_vars,
          run_vars, sheet_vars, pc>>

(***************************************************************************)
(* Bounds of the model.                                                    *)
(***************************************************************************)
MaxProducts == 3
MaxCluster == 3

(***************************************************************************)
(* Python str methods.                                                     *)
(***************************************************************************)
UpperLetters == <<"A","B","C","D","E","F","G","H","I","J","K","L","M",
                  "N","O","P","Q","R","S","T","U","V","W","X","Y","Z">>
LowerLetters == <<"a","b","c","d","e","f","g","h","i","j","k","l","m",
                  "n","o","p","q","r","s","t","u","v","w","x","y","z">>

\* str.lower() on one character
LowerChar(c) ==
  IF \E i \in 1..Len(UpperLetters) : UpperLetters[i] = c
  THEN LowerLetters[CHOOSE i \in 1..Len(UpperLetters) : UpperLetters[i] = c]
  ELSE c

\* str.lower()
Lower(s) == [i \in 1..Len(s) |-> LowerChar(s[i])]

\* the characters str.strip() removes
IsSpace(c) == c \in {" ", "\t", "\n", "\r"}

RECURSIVE LStrip(_)
LStrip(s) == IF s # <<>> /\ IsSpace(Head(s)) THEN LStrip(Tail(s)) ELSE s

RECURSIVE RStrip(_)
RStrip(s) ==
  IF s # <<>> /\ IsSpace(s[Len(s)]) THEN RStrip(SubSeq(s, 1, Len(s) - 1)) ELSE s

\* str.strip()
Strip(s) == RStrip(LStrip(s))

\* the f-string f"{a}|{b}"
JoinBar(a, b) == a \o <<"|">> \o b

(***************************************************************************)
(* difflib.SequenceMatcher(None, a, b).ratio(), as the pair <<2*M, T>> of   *)
(* its numerator and denominator.  Positions are 0-based and ranges        *)
(* half-open, as in difflib; no element is junk (isjunk is None and the    *)
(* autojunk heuristic needs 200 elements).                                 *)
(***************************************************************************)
RECURSIVE MatchLen(_, _, _, _, _, _)
MatchLen(a, b, i, j, ahi, bhi) ==
  IF i < ahi /\ j < bhi /\ a[i + 1] = b[j + 1]
  THEN 1 + MatchLen(a, b, i + 1, j + 1, ahi, bhi)
  ELSE 0

\* find_longest_match: the longest block, the earliest in a, then in b
FindLongestMatch(a, b, alo, ahi, blo, bhi) ==
  LET starts == (alo..(ahi - 1)) \X (blo..(bhi - 1))
      sizes == {MatchLen(a, b, p[1], p[2], ahi, bhi) : p \in starts}
      best == IF starts = {} THEN 0
              ELSE CHOOSE n \in sizes : \A m \in sizes : m <= n
  IN  IF best = 0 THEN <<alo, blo, 0>>
      ELSE LET longest == {p \in starts : MatchLen(a, b, p[1], p[2], ahi, bhi) = best}
               i == CHOOSE i \in {p[1] : p \in longest} :
                      \A q \in longest : i <= q[1]
               j == CHOOSE j \in {p[2] : p \in {q \in longest : q[1] = i}} :
                      \A q \in longest : q[1] = i => j <= q[2]
           IN  <<i, j, best>>

\* get_matching_blocks: the sum of the sizes of the matching blocks
RECURSIVE MatchTotal(_, _, _, _, _, _)
MatchTotal(a, b, alo, ahi, blo, bhi) ==
  LET blocks(i, j, k) ==
        IF k = 0 THEN 0
        ELSE k
             + (IF alo < i /\ blo < j THEN MatchTotal(a, b, alo, i, blo, j) ELSE 0)
             + (IF i + k < ahi /\ j + k < bhi
                THEN MatchTotal(a, b, i + k, ahi, j + k, bhi) ELSE 0)
      from(m) == blocks(m[1], m[2], m[3])
  IN  from(FindLongestMatch(a, b, alo, ahi, blo, bhi))

\* ratio() = 2.0 * matches / length, and 1.0 when both strings are empty
Ratio(a, b) ==
  IF Len(a) + Len(b) = 0 THEN <<1, 1>>
  ELSE <<2 * MatchTotal(a, b, 0, Len(a), 0, Len(b)), Len(a) + Len(b)>>

\* ratio >= threshold, the threshold given in hundredths
RatioAtLeast(r, pct) == 100 * r[1] >= pct * r[2]

(***************************************************************************)
(* Records.                                                                *)
(***************************************************************************)
Product(row, brand_name, product_name, image_url, price, lcbo_id, source) ==
  [row |-> row, brand_name |-> brand_name, product_name |-> product_name,
   category |-> "Spirits", subcategory |-> "Vodka", price |-> price,
   image_url |-> image_url, lcbo_id |-> lcbo_id, source |-> source]

\* collections.defaultdict(list): the keys keep their insertion order
GroupAppend(groups, key, p) ==
  IF \E i \in 1..Len(groups) : groups[i].key = key
  THEN [i \in 1..Len(groups) |->
          IF groups[i].key = key
          THEN [groups[i] EXCEPT !.items = Append(@, p)]
          ELSE groups[i]]
  ELSE Append(groups, [key |-> key, items |-> <<p>>])

(***************************************************************************)
(* AlcoholDataProcessor.find_exact_duplicates                              *)
(***************************************************************************)
\* the key, had the code left out lower()
ExactKeyCaseSensitive(p) ==
  LET brand_name == Strip(p.brand_name)
      product_name == Strip(p.product_name)
  IN  IF brand_name # <<>> /\ product_name # <<>>
      THEN JoinBar(brand_name, product_name)
      ELSE <<>>

\* the key of a record, <<>> when the record gets none
ExactKey(p) ==
  LET brand_name == Lower(Strip(p.brand_name))
      product_name == Lower(Strip(p.product_name))
  IN  IF brand_name # <<>> /\ product_name # <<>>
      THEN JoinBar(brand_name, product_name)
      ELSE <<>>

\* duplicate_groups after the first n products
RECURSIVE ExactGroups(_, _)
ExactGroups(ps, n) ==
  IF n = 0 THEN <<>>
  ELSE LET groups == ExactGroups(ps, n - 1)
           key == ExactKey(ps[n])
       IN  IF key # <<>> THEN GroupAppend(groups, key, ps[n]) ELSE groups

\* the groups, had the code kept those of one product too
GroupItemsWithSingles(groups) ==
  LET more == SelectSeq(groups, LAMBDA g : Len(g.items) > 0)
  IN  [i \in 1..Len(more) |-> more[i].items]

\* the groups with more than one product
GroupItems(groups) ==
  LET more == SelectSeq(groups, LAMBDA g : Len(g.items) > 1)
  IN  [i \in 1..Len(more) |-> more[i].items]

find_exact_duplicates(ps) == GroupItems(ExactGroups(ps, Len(ps)))

(***************************************************************************)
(* AlcoholDataProcessor.find_duplicates, fuzzy mode                        *)
(***************************************************************************)
\* brand_groups after the first n products
RECURSIVE BrandGroups(_, _)
BrandGroups(ps, n) ==
  IF n = 0 THEN <<>>
  ELSE GroupAppend(BrandGroups(ps, n - 1), Lower(ps[n].brand_name), ps[n])

\* the similarity of the inner loop, computed when both names are not empty
DuplicateScoreOf(product1_name, product2_name) ==
  Ratio(Lower(product1_name), Lower(product2_name))

\* the test, had the code left out the comparison with the threshold
SimilarAnyName(product1, product2, threshold) ==
  /\ Lower(product1.product_name) # <<>>
  /\ Lower(product2.product_name) # <<>>

\* the test of the inner loop on brand_products[i] and brand_products[j]
Similar(product1, product2, threshold) ==
  LET product1_name == Lower(product1.product_name)
      product2_name == Lower(product2.product_name)
  IN  /\ product1_name # <<>>
      /\ product2_name # <<>>
      /\ RatioAtLeast(Ratio(product1_name, product2_name), threshold)

\* the list of the positions of a set, ascending
RECURSIVE Ascending(_)
Ascending(S) ==
  IF S = {} THEN <<>>
  ELSE LET m == CHOOSE m \in S : \A x \in S : m <= x
       IN  <<m>> \o Ascending(S \ {m})

\* the sweep, had the code not skipped the positions already in processed
RECURSIVE SweepIgnoringProcessed(_, _, _, _)
SweepIgnoringProcessed(brand_products, i, processed, threshold) ==
  IF i > Len(brand_products) THEN <<>>
  ELSE LET claimed == {j \in (i + 1)..Len(brand_products) :
                         Similar(brand_products[i], brand_products[j], threshold)}
           order == Ascending(claimed)
           similar_products ==
             <<brand_products[i]>> \o [k \in 1..Len(order) |-> brand_products[order[k]]]
       IN  IF claimed # {}
           THEN <<similar_products>>
                \o SweepIgnoringProcessed(brand_products, i + 1, processed, threshold)
           ELSE SweepIgnoringProcessed(brand_products, i + 1, processed, threshold)

\* the sweep over one brand's products from position i on
RECURSIVE Sweep(_, _, _, _)
Sweep(brand_products, i, processed, threshold) ==
  IF i > Len(brand_products) THEN <<>>
  ELSE IF i \in processed THEN Sweep(brand_products, i + 1, processed, threshold)
  ELSE LET claimed == {j \in (i + 1)..Len(brand_products) :
                         /\ j \notin processed
                         /\ Similar(brand_products[i], brand_products[j], threshold)}
           order == Ascending(claimed)
           similar_products ==
             <<brand_products[i]>> \o [k \in 1..Len(order) |-> brand_products[order[k]]]
       IN  IF claimed # {}
           THEN <<similar_products>>
                \o Sweep(brand_products, i + 1, processed \cup claimed \cup {i}, threshold)
           ELSE Sweep(brand_products, i + 1, processed, threshold)

RECURSIVE SweepGroups(_, _, _)
SweepGroups(groups, g, threshold) ==
  IF g > Len(groups) THEN <<>>
  ELSE (IF Len(groups[g].items) <= 1 THEN <<>>
        ELSE Sweep(groups[g].items, 1, {}, threshold))
       \o SweepGroups(groups, g + 1, threshold)

find_fuzzy_duplicates(ps, threshold) ==
  SweepGroups(BrandGroups(ps, Len(ps)), 1, threshold)

find_duplicates(ps, exact, threshold) ==
  IF exact THEN find_exact_duplicates(ps) ELSE find_fuzzy_duplicates(ps, threshold)

\* DataIntegrityProcessor.find_duplicates: the fuzzy sweep with its own CONFIG
LcboSimilarityThreshold == 80
lcbo_find_duplicates(ps) ==
  SweepGroups(BrandGroups(ps, Len(ps)), 1, LcboSimilarityThreshold)

(***************************************************************************)
(* merge_duplicates                                                        *)
(***************************************************************************)
\* Python's not x on a string, as the number the tuple comparison orders by
Not01(x) == IF x = "" THEN 1 ELSE 0
Ne01(x, y) == IF x # y THEN 1 ELSE 0

\* tuple comparison a < b of two tuples of numbers of one length
RECURSIVE TupleLess(_, _)
TupleLess(a, b) ==
  IF a = <<>> THEN FALSE
  ELSE IF Head(a) # Head(b) THEN Head(a) < Head(b)
  ELSE TupleLess(Tail(a), Tail(b))

\* sorted(): stable, ascending; keyed is the list of [key, item]
RECURSIVE SortedKeyed(_, _)
SortedKeyed(keyed, n) ==
  IF n = 0 THEN <<>>
  ELSE LET done == SortedKeyed(keyed, n - 1)
           e == keyed[n]
           pos == Cardinality({i \in 1..Len(done) : ~TupleLess(e.key, done[i].key)})
       IN  SubSeq(done, 1, pos) \o <<e>> \o SubSeq(done, pos + 1, Len(done))

\* AlcoholDataProcessor.merge_duplicates: the sort key of a member
SortKey(p) == <<Not01(p.image_url), Not01(p.price), Len(p.product_name)>>

\* the key, had the code left out the source
LcboSortKeyNoSource(p) ==
  <<0, Not01(p.image_url), Not01(p.price), Len(p.product_name)>>

\* DataIntegrityProcessor.merge_duplicates: the sort key of a member
LcboSortKey(p) ==
  <<Ne01(p.source, "LCBO"), Not01(p.image_url), Not01(p.price), Len(p.product_name)>>

SortedGroup(duplicate_group) ==
  LET keyed == [i \in 1..Len(duplicate_group) |->
                  [key |-> SortKey(duplicate_group[i]), item |-> duplicate_group[i]]]
      s == SortedKeyed(keyed, Len(keyed))
  IN  [i \in 1..Len(s) |-> s[i].item]

LcboSortedGroup(duplicate_group) ==
  LET keyed == [i \in 1..Len(duplicate_group) |->
                  [key |-> LcboSortKey(duplicate_group[i]), item |-> duplicate_group[i]]]
      s == SortedKeyed(keyed, Len(keyed))
  IN  [i \in 1..Len(s) |-> s[i].item]

\* the pass, had the code left out the image_url
AddMissingNoImage(best_product, duplicate) ==
  LET b2 == IF best_product.price = "" /\ duplicate.price # ""
            THEN [best_product EXCEPT !.price = duplicate.price]
            ELSE best_product
  IN  IF b2.lcbo_id = "" /\ duplicate.lcbo_id # ""
      THEN [b2 EXCEPT !.lcbo_id = duplicate.lcbo_id]
      ELSE b2

\* the pass, had the code not asked whether the best product has a price
AddMissingOverwrite(best_product, duplicate) ==
  LET b1 == IF best_product.image_url = "" /\ duplicate.image_url # ""
            THEN [best_product EXCEPT !.image_url = duplicate.image_url]
            ELSE best_product
      b2 == IF duplicate.price # ""
            THEN [b1 EXCEPT !.price = duplicate.price]
            ELSE b1
  IN  IF b2.lcbo_id = "" /\ duplicate.lcbo_id # ""
      THEN [b2 EXCEPT !.lcbo_id = duplicate.lcbo_id]
      ELSE b2

\* one pass of the loop "for duplicate in sorted_group[1:]"
AddMissing(best_product, duplicate) ==
  LET b1 == IF best_product.image_url = "" /\ duplicate.image_url # ""
            THEN [best_product EXCEPT !.image_url = duplicate.image_url]
            ELSE best_product
      b2 == IF b1.price = "" /\ duplicate.price # ""
            THEN [b1 EXCEPT !.price = duplicate.price]
            ELSE b1
  IN  IF b2.lcbo_id = "" /\ duplicate.lcbo_id # ""
      THEN [b2 EXCEPT !.lcbo_id = duplicate.lcbo_id]
      ELSE b2

\* the loop, had the code walked the other members from the last to the first
RECURSIVE MergeIntoFromLast(_, _)
MergeIntoFromLast(best_product, rest) ==
  IF rest = <<>> THEN best_product
  ELSE LET d == rest[Len(rest)]
           b1 == IF best_product.image_url = "" /\ d.image_url # ""
                 THEN [best_product EXCEPT !.image_url = d.image_url]
                 ELSE best_product
           b2 == IF b1.price = "" /\ d.price # ""
                 THEN [b1 EXCEPT !.price = d.price]
                 ELSE b1
           b3 == IF b2.lcbo_id = "" /\ d.lcbo_id # ""
                 THEN [b2 EXCEPT !.lcbo_id = d.lcbo_id]
                 ELSE b2
       IN  MergeIntoFromLast(b3, SubSeq(rest, 1, Len(rest) - 1))

\* the loop "for duplicate in sorted_group[1:]"
RECURSIVE MergeInto(_, _)
MergeInto(best_product, rest) ==
  IF rest = <<>> THEN best_product
  ELSE MergeInto(AddMissing(best_product, Head(rest)), Tail(rest))

\* the merged record of one non-empty group
MergeGroup(duplicate_group) ==
  LET sorted_group == SortedGroup(duplicate_group)
  IN  MergeInto(sorted_group[1], Tail(sorted_group))

LcboMergeGroup(duplicate_group) ==
  LET sorted_group == LcboSortedGroup(duplicate_group)
  IN  MergeInto(sorted_group[1], Tail(sorted_group))

RECURSIVE merge_duplicates(_)
merge_duplicates(dups) ==
  IF dups = <<>> THEN <<>>
  ELSE (IF Head(dups) = <<>> THEN <<>> ELSE <<MergeGroup(Head(dups))>>)
       \o merge_duplicates(Tail(dups))

RECURSIVE lcbo_merge_duplicates(_)
lcbo_merge_duplicates(dups) ==
  IF dups = <<>> THEN <<>>
  ELSE (IF Head(dups) = <<>> THEN <<>> ELSE <<LcboMergeGroup(Head(dups))>>)
       \o lcbo_merge_duplicates(Tail(dups))

(***************************************************************************)
(* AlcoholDataProcessor.remove_duplicates                                  *)
(***************************************************************************)
\* the identifier remove_duplicates gives a product
ProductId(p) == JoinBar(Lower(p.brand_name), Lower(p.product_name))

\* the identifiers of the members of the groups
DuplicateProductIds(dups) ==
  UNION {{ProductId(dups[g][k]) : k \in 1..Len(dups[g])} : g \in 1..Len(dups)}

\* the products that were in no duplicate group, in their order
RECURSIVE NotDuplicates(_, _)
NotDuplicates(ps, ids) ==
  IF ps = <<>> THEN <<>>
  ELSE (IF ProductId(Head(ps)) \notin ids THEN <<Head(ps)>> ELSE <<>>)
       \o NotDuplicates(Tail(ps), ids)

\* the result, had the code added the merged products to all the products
\* instead of to those that were in no duplicate group
remove_duplicates_keeping_members(ps, exact, threshold) ==
  LET unique_products(duplicate_groups) ==
        IF duplicate_groups = <<>> THEN ps
        ELSE ps \o merge_duplicates(duplicate_groups)
  IN  unique_products(find_duplicates(ps, exact, threshold))

remove_duplicates(ps, exact, threshold) ==
  LET unique_products(duplicate_groups) ==
        IF duplicate_groups = <<>> THEN ps
        ELSE NotDuplicates(ps, DuplicateProductIds(duplicate_groups))
             \o merge_duplicates(duplicate_groups)
  IN  unique_products(find_duplicates(ps, exact, threshold))

(***************************************************************************)
(* GoogleSheetsClient.get_column_mapping                                   *)
(***************************************************************************)
\* str.replace(old, new) for one-character old and new
Replace(s, old, new) == [i \in 1..Len(s) |-> IF s[i] = old THEN new ELSE s[i]]

\* the test "sub in s" on strings
Contains(s, sub) ==
  \E i \in 0..(Len(s) - Len(sub)) : SubSeq(s, i + 1, i + Len(sub)) = sub

\* header_clean of a header
HeaderClean(header) == Replace(Replace(Strip(Lower(header)), "_", " "), "-", " ")

\* the chain, had it asked its rules in the reverse order: the last rule of
\* the source that matches decides
HeaderFieldLastRule(header) ==
  LET header_clean == HeaderClean(header)
      has(w) == Contains(header_clean, w)
  IN  IF has(<<"s", "o", "u", "r", "c", "e">>) THEN "source"
      ELSE IF has(<<"s", "u", "b", "c", "a", "t", "e", "g", "o", "r", "y">>) \/ (has(<<"s", "u", "b">>) /\ has(<<"c", "a", "t", "e", "g", "o", "r", "y">>))
        THEN "subcategory"
      ELSE IF has(<<"c", "a", "t", "e", "g", "o", "r", "y">>) /\ ~has(<<"s", "u", "b">>) THEN "category"
      ELSE IF has(<<"p", "r", "i", "c", "e">>) THEN "price"
      ELSE IF has(<<"i", "m", "a", "g", "e">>) /\ has(<<"u", "r", "l">>) THEN "image_url"
      ELSE IF has(<<"l", "c", "b", "o">>) /\ has(<<"i", "d">>) THEN "lcbo_id"
      ELSE IF has(<<"i", "d">>) /\ header_clean = <<"i", "d">> THEN "id"
      ELSE IF has(<<"g", "l", "u", "t", "e", "n">>) /\ has(<<"f", "r", "e", "e">>) THEN "gluten_free_score"
      ELSE IF has(<<"g", "l", "u", "t", "e", "n">>) /\ has(<<"s", "c", "o", "r", "e">>) THEN "gluten_free_score"
      ELSE IF has(<<"d", "e", "s", "c", "r", "i", "p", "t", "o", "r">>) THEN "descriptors"
      ELSE IF has(<<"p", "r", "o", "d", "u", "c", "t">>) /\ (has(<<"n", "a", "m", "e">>) \/ header_clean = <<"p", "r", "o", "d", "u", "c", "t">>)
        THEN "product_name"
      ELSE IF has(<<"b", "r", "a", "n", "d">>) /\ (has(<<"n", "a", "m", "e">>) \/ header_clean = <<"b", "r", "a", "n", "d">>)
        THEN "brand_name"
      ELSE ""

\* the canonical field the if/elif chain gives a header, "" when no rule matches
HeaderField(header) ==
  LET header_clean == HeaderClean(header)
      has(w) == Contains(header_clean, w)
  IN  IF has(<<"b", "r", "a", "n", "d">>) /\ (has(<<"n", "a", "m", "e">>) \/ header_clean = <<"b", "r", "a", "n", "d">>)
        THEN "brand_name"
      ELSE IF has(<<"p", "r", "o", "d", "u", "c", "t">>) /\ (has(<<"n", "a", "m", "e">>) \/ header_clean = <<"p", "r", "o", "d", "u", "c", "t">>)
        THEN "product_name"
      ELSE IF has(<<"d", "e", "s", "c", "r", "i", "p", "t", "o", "r">>) THEN "descriptors"
      ELSE IF has(<<"g", "l", "u", "t", "e", "n">>) /\ has(<<"s", "c", "o", "r", "e">>) THEN "gluten_free_score"
      ELSE IF has(<<"g", "l", "u", "t", "e", "n">>) /\ has(<<"f", "r", "e", "e">>) THEN "gluten_free_score"
      ELSE IF has(<<"i", "d">>) /\ header_clean = <<"i", "d">> THEN "id"
      ELSE IF has(<<"l", "c", "b", "o">>) /\ has(<<"i", "d">>) THEN "lcbo_id"
      ELSE IF has(<<"i", "m", "a", "g", "e">>) /\ has(<<"u", "r", "l">>) THEN "image_url"
      ELSE IF has(<<"p", "r", "i", "c", "e">>) THEN "price"
      ELSE IF has(<<"c", "a", "t", "e", "g", "o", "r", "y">>) /\ ~has(<<"s", "u", "b">>) THEN "category"
      ELSE IF has(<<"s", "u", "b", "c", "a", "t", "e", "g", "o", "r", "y">>) \/ (has(<<"s", "u", "b">>) /\ has(<<"c", "a", "t", "e", "g", "o", "r", "y">>))
        THEN "subcategory"
      ELSE IF has(<<"s", "o", "u", "r", "c", "e">>) THEN "source"
      ELSE ""

\* column_mapping after the first n headers; the indices count from 0, and a
\* later header of a field replaces an earlier one
RECURSIVE ColumnMappingUpTo(_, _)
ColumnMappingUpTo(hs, n) ==
  IF n = 0 THEN <<>>
  ELSE LET mapping == ColumnMappingUpTo(hs, n - 1)
           field == HeaderField(hs[n])
       IN  IF field = "" THEN mapping
           ELSE [f \in (DOMAIN mapping) \cup {field} |->
                   IF f = field THEN n - 1 ELSE mapping[f]]

get_column_mapping(hs) == ColumnMappingUpTo(hs, Len(hs))

(***************************************************************************)
(* AlcoholBackupRestorer.  A score is the pair <<numerator, denominator>>  *)
(* of a fraction; 0.0 is <<0, 1>> and 1.0 is <<1, 1>>.                     *)
(***************************************************************************)
RatAdd(x, y) == <<x[1] * y[2] + y[1] * x[2], x[2] * y[2]>>
RatDiv(x, n) == <<x[1], x[2] * n>>
RatLess(x, y) == x[1] * y[2] < y[1] * x[2]
RatEq(x, y) == x[1] * y[2] = y[1] * x[2]

\* CONFIG["fuzzy_match_fields"] and CONFIG["fuzzy_match_threshold"], in hundredths
FuzzyMatchFields == <<"brand_name", "product_name">>
FuzzyMatchThreshold == 85

\* dict.get(field, '')
Get(d, field) == IF field \in DOMAIN d THEN d[field] ELSE <<>>

\* the scorer, had the code left out strip()
calculate_similarity_unstripped(s1, s2) ==
  IF s1 = <<>> \/ s2 = <<>> THEN <<0, 1>>
  ELSE IF Lower(s1) = Lower(s2) THEN <<1, 1>>
  ELSE Ratio(Lower(s1), Lower(s2))

calculate_similarity(s1, s2) ==
  IF s1 = <<>> \/ s2 = <<>> THEN <<0, 1>>
  ELSE LET str1_norm == Strip(Lower(s1))
           str2_norm == Strip(Lower(s2))
       IN  IF str1_norm = str2_norm THEN <<1, 1>>
           ELSE Ratio(str1_norm, str2_norm)

\* sum(field_scores) of the first n fields
RECURSIVE SumFieldScores(_, _, _)
SumFieldScores(current_record, backup_record, n) ==
  IF n = 0 THEN <<0, 1>>
  ELSE RatAdd(SumFieldScores(current_record, backup_record, n - 1),
              calculate_similarity(Get(current_record, FuzzyMatchFields[n]),
                                   Get(backup_record, FuzzyMatchFields[n])))

\* avg_score of one backup product
AvgScore(current_record, backup_record) ==
  IF Len(FuzzyMatchFields) > 0
  THEN RatDiv(SumFieldScores(current_record, backup_record, Len(FuzzyMatchFields)),
              Len(FuzzyMatchFields))
  ELSE <<0, 1>>

\* the loop, had the code compared the averages with >= instead of >
RECURSIVE BestMatchLastOfTies(_, _, _, _)
BestMatchLastOfTies(current_record, backup_records, n, threshold) ==
  IF n = 0 THEN [best_match |-> <<>>, best_score |-> <<0, 1>>]
  ELSE LET b == BestMatchLastOfTies(current_record, backup_records, n - 1, threshold)
           avg_score == AvgScore(current_record, backup_records[n])
       IN  IF ~RatLess(avg_score, b.best_score) /\ RatioAtLeast(avg_score, threshold)
           THEN [best_match |-> backup_records[n], best_score |-> avg_score]
           ELSE b

\* best_match and best_score after the first n backup products; None is <<>>
RECURSIVE BestMatchUpTo(_, _, _, _)
BestMatchUpTo(current_record, backup_records, n, threshold) ==
  IF n = 0 THEN [best_match |-> <<>>, best_score |-> <<0, 1>>]
  ELSE LET b == BestMatchUpTo(current_record, backup_records, n - 1, threshold)
           avg_score == AvgScore(current_record, backup_records[n])
       IN  IF RatLess(b.best_score, avg_score) /\ RatioAtLeast(avg_score, threshold)
           THEN [best_match |-> backup_records[n], best_score |-> avg_score]
           ELSE b

find_best_match(current_record, backup_records, threshold) ==
  BestMatchUpTo(current_record, backup_records, Len(backup_records), threshold)

\* max(backup_column_mapping.values())
MaxColumn(mapping) ==
  CHOOSE m \in {mapping[f] : f \in DOMAIN mapping} :
    \A f \in DOMAIN mapping : mapping[f] <= m

\* max() of an empty sequence raises ValueError: the mapping is empty and the
\* loop over the data rows runs at least once
RestoreRaises(data, mapping) == Len(data) > 1 /\ DOMAIN mapping = {}

\* the backup product of one row
BackupProduct(row, mapping) ==
  [f \in DOMAIN mapping |->
     IF mapping[f] < Len(row) THEN row[mapping[f] + 1] ELSE <<>>]

\* backup_products of the rows from the n-th on
RECURSIVE BackupProductsFrom(_, _, _)
BackupProductsFrom(data, mapping, n) ==
  IF n > Len(data) THEN <<>>
  ELSE (IF Len(data[n]) >= MaxColumn(mapping) + 1
        THEN <<BackupProduct(data[n], mapping)>>
        ELSE <<>>)
       \o BackupProductsFrom(data, mapping, n + 1)

\* backup_products: the header row is skipped
BackupProducts(data, mapping) ==
  IF Len(data) > 1 THEN BackupProductsFrom(data, mapping, 2) ELSE <<>>

\* d[field] = value on a dict
SetItem(d, field, value) ==
  [f \in (DOMAIN d) \cup {field} |-> IF f = field THEN value ELSE d[f]]

\* the copy, had the code not asked whether the backup value is empty
RestoreFieldAlways(current_record, match, field) ==
  SetItem(current_record, field, Get(match, field))

\* the copy of one field of the match when it is not empty once trimmed
RestoreField(current_record, match, field) ==
  IF Get(match, field) # <<>> /\ Strip(Get(match, field)) # <<>>
  THEN SetItem(current_record, field, match[field])
  ELSE current_record

\* one pass of the loop over current_products, had the code copied the
\* product_name of the match too
RestoreProductAndName(current_record, backup_records, threshold) ==
  LET found == find_best_match(current_record, backup_records, threshold)
  IN  IF found.best_match # <<>> /\ RatioAtLeast(found.best_score, threshold)
      THEN RestoreField(
             RestoreField(
               RestoreField(current_record, found.best_match, "gluten_free_score"),
               found.best_match, "descriptors"),
             found.best_match, "product_name")
      ELSE current_record

\* one pass of the loop over current_products
RestoreProduct(current_record, backup_records, threshold) ==
  LET found == find_best_match(current_record, backup_records, threshold)
  IN  IF found.best_match # <<>> /\ RatioAtLeast(found.best_score, threshold)
      THEN RestoreField(
             RestoreField(current_record, found.best_match, "gluten_free_score"),
             found.best_match, "descriptors")
      ELSE current_record

\* updated_products, when max() does not raise
restore_from_backup(records, data, mapping, threshold) ==
  [i \in 1..Len(records) |->
     RestoreProduct(records[i], BackupProducts(data, mapping), threshold)]

(***************************************************************************)
(* AlcoholBackupRestorer.process_existing_data.  The names, which the code *)
(* trims and compares, are tuples of characters; the other cells are       *)
(* strings.                                                                *)
(***************************************************************************)
\* the empty string of a field
EmptyCell(field) ==
  IF field \in {"brand_name", "product_name", "gluten_free_score", "descriptors"}
  THEN <<>>
  ELSE ""

\* existing_product of one row: the mapped cells, '' for a cell the row lacks,
\* then source
ExistingProduct(row, mapping) ==
  [f \in (DOMAIN mapping) \cup {"source"} |->
     IF f = "source" THEN "Existing"
     ELSE IF mapping[f] < Len(row) THEN row[mapping[f] + 1]
     ELSE EmptyCell(f)]

\* the row is turned into a product: it has at least 3 cells and a
\* brand_name or a product_name
RowIsProcessed(row, mapping) ==
  /\ Len(row) >= 3
  /\ \/ Get(ExistingProduct(row, mapping), "brand_name") # <<>>
     \/ Get(ExistingProduct(row, mapping), "product_name") # <<>>

\* processed_existing of the rows from the n-th on
RECURSIVE ProcessedFrom(_, _, _)
ProcessedFrom(data, mapping, n) ==
  IF n > Len(data) THEN <<>>
  ELSE (IF RowIsProcessed(data[n], mapping)
        THEN <<ExistingProduct(data[n], mapping)>>
        ELSE <<>>)
       \o ProcessedFrom(data, mapping, n + 1)

process_existing_data(data) ==
  IF Len(data) > 1
  THEN ProcessedFrom(data, get_column_mapping(data[1]), 2)
  ELSE <<>>

(***************************************************************************)
(* run_duplicate_removal.main and GoogleSheetsClient.remove_duplicate_rows *)
(***************************************************************************)
\* the identifier the script gives a product
RowIdentifier(product) ==
  JoinBar(Lower(Get(product, "brand_name")), Lower(Get(product, "product_name")))

\* duplicate_identifiers: the identifiers of the members of the groups
DuplicateIdentifiers(dups) ==
  UNION {{RowIdentifier(dups[g][k]) : k \in 1..Len(dups[g])} : g \in 1..Len(dups)}

\* duplicate_row_indices after the first n products: the indices, from 0, of
\* the products whose identifier is a duplicate identifier seen before
RECURSIVE MarkedUpTo(_, _, _)
MarkedUpTo(ps, ids, n) ==
  IF n = 0 THEN <<>>
  ELSE MarkedUpTo(ps, ids, n - 1)
       \o (IF /\ RowIdentifier(ps[n]) \in ids
              /\ \E m \in 1..(n - 1) : RowIdentifier(ps[m]) = RowIdentifier(ps[n])
           THEN <<n - 1>>
           ELSE <<>>)

\* duplicate_row_indices of the script; nothing is marked when there is no
\* group
MarkedRows(ps, dups) ==
  IF dups = <<>> THEN <<>>
  ELSE MarkedUpTo(ps, DuplicateIdentifiers(dups), Len(ps))

\* list.sort(reverse=True)
RECURSIVE SortedDescending(_)
SortedDescending(indices) ==
  IF indices = <<>> THEN <<>>
  ELSE LET k == CHOOSE k \in 1..Len(indices) :
                  \A m \in 1..Len(indices) : indices[m] <= indices[k]
       IN  <<indices[k]>>
           \o SortedDescending(SubSeq(indices, 1, k - 1)
                               \o SubSeq(indices, k + 1, Len(indices)))

\* the startIndex of the deleteDimension requests, in the order of the batch:
\* row_index + 2 is the sheet row number, from 1, and startIndex is one less
DeleteRequests(indices) ==
  [k \in 1..Len(indices) |-> SortedDescending(indices)[k] + 2 - 1]

(***************************************************************************)
(* AlcoholDataProcessor.normalize_subcategory                              *)
(***************************************************************************)
\* SUBCATEGORY_NORMALIZATIONS: the pairs <<key, canonical value>> in the order
\* of the dict
SUBCATEGORY_NORMALIZATIONS ==
  <<<<<<"G", "i", "f", "t", " ", "A", "n", "d", " ", "S", "a", "m", "p", "l", "e", "r">>,
     <<"G", "i", "f", "t", "s", " ", "a", "n", "d", " ", "S", "a", "m", "p", "l", "e", "r", "s">>>>,
    <<<<"G", "i", "f", "t", " ", "a", "n", "d", " ", "S", "a", "m", "p", "l", "e", "r">>,
     <<"G", "i", "f", "t", "s", " ", "a", "n", "d", " ", "S", "a", "m", "p", "l", "e", "r", "s">>>>,
    <<<<"G", "i", "f", "t", "s", " ", "A", "n", "d", " ", "S", "a", "m", "p", "l", "e", "r">>,
     <<"G", "i", "f", "t", "s", " ", "a", "n", "d", " ", "S", "a", "m", "p", "l", "e", "r", "s">>>>,
    <<<<"G", "i", "f", "t", " ", "&", " ", "S", "a", "m", "p", "l", "e", "r">>,
     <<"G", "i", "f", "t", "s", " ", "a", "n", "d", " ", "S", "a", "m", "p", "l", "e", "r", "s">>>>,
    <<<<"G", "i", "f", "t", "s", " ", "&", " ", "S", "a", "m", "p", "l", "e", "r">>,
     <<"G", "i", "f", "t", "s", " ", "a", "n", "d", " ", "S", "a", "m", "p", "l", "e", "r", "s">>>>,
    <<<<"G", "i", "f", "t", " ", "a", "n", "d", " ", "S", "a", "m", "p", "l", "e", "r", "s">>,
     <<"G", "i", "f", "t", "s", " ", "a", "n", "d", " ", "S", "a", "m", "p", "l", "e", "r", "s">>>>,
    <<<<"G", "i", "f", "t", " ", "A", "n", "d", " ", "S", "a", "m", "p", "l", "e", "r", "s">>,
     <<"G", "i", "f", "t", "s", " ", "a", "n", "d", " ", "S", "a", "m", "p", "l", "e", "r", "s">>>>,
    <<<<"B", "e", "e", "r", " ", "&", " ", "C", "i", "d", "e", "r">>,
     <<"B", "e", "e", "r">>>>,
    <<<<"B", "e", "e", "r", " ", "a", "n", "d", " ", "C", "i", "d", "e", "r">>,
     <<"B", "e", "e", "r">>>>,
    <<<<"B", "e", "e", "r", " ", "&", " ", "C", "i", "d", "e", "r", "s">>,
     <<"B", "e", "e", "r">>>>,
    <<<<"B", "e", "e", "r", " ", "a", "n", "d", " ", "C", "i", "d", "e", "r", "s">>,
     <<"B", "e", "e", "r">>>>,
    <<<<"R", "e", "d", " ", "W", "i", "n", "e">>,
     <<"R", "e", "d", " ", "W", "i", "n", "e", "s">>>>,
    <<<<"W", "h", "i", "t", "e", " ", "W", "i", "n", "e">>,
     <<"W", "h", "i", "t", "e", " ", "W", "i", "n", "e", "s">>>>,
    <<<<"R", "o", "s", "e", " ", "W", "i", "n", "e">>,
     <<"R", "o", "s", "e", " ", "W", "i", "n", "e", "s">>>>,
    <<<<"S", "p", "a", "r", "k", "l", "i", "n", "g", " ", "W", "i", "n", "e">>,
     <<"S", "p", "a", "r", "k", "l", "i", "n", "g", " ", "W", "i", "n", "e", "s">>>>,
    <<<<"D", "e", "s", "s", "e", "r", "t", " ", "W", "i", "n", "e">>,
     <<"D", "e", "s", "s", "e", "r", "t", " ", "W", "i", "n", "e", "s">>>>,
    <<<<"F", "o", "r", "t", "i", "f", "i", "e", "d", " ", "W", "i", "n", "e">>,
     <<"F", "o", "r", "t", "i", "f", "i", "e", "d", " ", "W", "i", "n", "e", "s">>>>,
    <<<<"W", "h", "i", "s", "k", "y">>,
     <<"W", "h", "i", "s", "k", "e", "y">>>>,
    <<<<"W", "h", "i", "s", "k", "e", "y">>,
     <<"W", "h", "i", "s", "k", "e", "y">>>>,
    <<<<"S", "c", "o", "t", "c", "h">>,
     <<"S", "c", "o", "t", "c", "h", " ", "W", "h", "i", "s", "k", "y">>>>,
    <<<<"S", "c", "o", "t", "c", "h", " ", "W", "h", "i", "s", "k", "e", "y">>,
     <<"S", "c", "o", "t", "c", "h", " ", "W", "h", "i", "s", "k", "y">>>>,
    <<<<"B", "o", "u", "r", "b", "o", "n">>,
     <<"B", "o", "u", "r", "b", "o", "n", " ", "W", "h", "i", "s", "k", "e", "y">>>>,
    <<<<"B", "o", "u", "r", "b", "o", "n", " ", "W", "h", "i", "s", "k", "y">>,
     <<"B", "o", "u", "r", "b", "o", "n", " ", "W", "h", "i", "s", "k", "e", "y">>>>,
    <<<<"R", "y", "e">>,
     <<"R", "y", "e", " ", "W", "h", "i", "s", "k", "e", "y">>>>,
    <<<<"R", "y", "e", " ", "W", "h", "i", "s", "k", "y">>,
     <<"R", "y", "e", " ", "W", "h", "i", "s", "k", "e", "y">>>>,
    <<<<"C", "a", "n", "a", "d", "i", "a", "n", " ", "W", "h", "i", "s", "k", "y">>,
     <<"C", "a", "n", "a", "d", "i", "a", "n", " ", "W", "h", "i", "s", "k", "e", "y">>>>,
    <<<<"C", "a", "n", "a", "d", "i", "a", "n", " ", "W", "h", "i", "s", "k", "e", "y">>,
     <<"C", "a", "n", "a", "d", "i", "a", "n", " ", "W", "h", "i", "s", "k", "e", "y">>>>,
    <<<<"V", "o", "d", "k", "a">>,
     <<"V", "o", "d", "k", "a">>>>,
    <<<<"F", "l", "a", "v", "o", "u", "r", "e", "d", " ", "V", "o", "d", "k", "a">>,
     <<"F", "l", "a", "v", "o", "r", "e", "d", " ", "V", "o", "d", "k", "a">>>>,
    <<<<"F", "l", "a", "v", "o", "r", "e", "d", " ", "V", "o", "d", "k", "a">>,
     <<"F", "l", "a", "v", "o", "r", "e", "d", " ", "V", "o", "d", "k", "a">>>>,
    <<<<"G", "i", "n">>,
     <<"G", "i", "n">>>>,
    <<<<"L", "o", "n", "d", "o", "n", " ", "D", "r", "y", " ", "G", "i", "n">>,
     <<"L", "o", "n", "d", "o", "n", " ", "D", "r", "y", " ", "G", "i", "n">>>>,
    <<<<"P", "l", "y", "m", "o", "u", "t", "h", " ", "G", "i", "n">>,
     <<"P", "l", "y", "m", "o", "u", "t", "h", " ", "G", "i", "n">>>>,
    <<<<"R", "u", "m">>,
     <<"R", "u", "m">>>>,
    <<<<"W", "h", "i", "t", "e", " ", "R", "u", "m">>,
     <<"W", "h", "i", "t", "e", " ", "R", "u", "m">>>>,
    <<<<"D", "a", "r", "k", " ", "R", "u", "m">>,
     <<"D", "a", "r", "k", " ", "R", "u", "m">>>>,
    <<<<"S", "p", "i", "c", "e", "d", " ", "R", "u", "m">>,
     <<"S", "p", "i", "c", "e", "d", " ", "R", "u", "m">>>>,
    <<<<"G", "o", "l", "d", " ", "R", "u", "m">>,
     <<"G", "o", "l", "d", " ", "R", "u", "m">>>>,
    <<<<"A", "g", "e", "d", " ", "R", "u", "m">>,
     <<"A", "g", "e", "d", " ", "R", "u", "m">>>>,
    <<<<"T", "e", "q", "u", "i", "l", "a">>,
     <<"T", "e", "q", "u", "i", "l", "a">>>>,
    <<<<"B", "l", "a", "n", "c", "o", " ", "T", "e", "q", "u", "i", "l", "a">>,
     <<"B", "l", "a", "n", "c", "o", " ", "T", "e", "q", "u", "i", "l", "a">>>>,
    <<<<"R", "e", "p", "o", "s", "a", "d", "o", " ", "T", "e", "q", "u", "i", "l", "a">>,
     <<"R", "e", "p", "o", "s", "a", "d", "o", " ", "T", "e", "q", "u", "i", "l", "a">>>>,
    <<<<"A", "n", "e", "j", "o", " ", "T", "e", "q", "u", "i", "l", "a">>,
     <<"A", "n", "e", "j", "o", " ", "T", "e", "q", "u", "i", "l", "a">>>>,
    <<<<"M", "e", "z", "c", "a", "l">>,
     <<"M", "e", "z", "c", "a", "l">>>>,
    <<<<"L", "i", "q", "u", "e", "u", "r">>,
     <<"L", "i", "q", "u", "e", "u", "r">>>>,
    <<<<"L", "i", "q", "u", "e", "u", "r", "s">>,
     <<"L", "i", "q", "u", "e", "u", "r">>>>,
    <<<<"C", "r", "e", "a", "m", " ", "L", "i", "q", "u", "e", "u", "r">>,
     <<"C", "r", "e", "a", "m", " ", "L", "i", "q", "u", "e", "u", "r">>>>,
    <<<<"C", "r", "e", "a", "m", " ", "L", "i", "q", "u", "e", "u", "r", "s">>,
     <<"C", "r", "e", "a", "m", " ", "L", "i", "q", "u", "e", "u", "r">>>>,
    <<<<"C", "o", "f", "f", "e", "e", " ", "L", "i", "q", "u", "e", "u", "r">>,
     <<"C", "o", "f", "f", "e", "e", " ", "L", "i", "q", "u", "e", "u", "r">>>>,
    <<<<"C", "o", "f", "f", "e", "e", " ", "L", "i", "q", "u", "e", "u", "r", "s">>,
     <<"C", "o", "f", "f", "e", "e", " ", "L", "i", "q", "u", "e", "u", "r">>>>,
    <<<<"H", "e", "r", "b", "a", "l", " ", "L", "i", "q", "u", "e", "u", "r">>,
     <<"H", "e", "r", "b", "a", "l", " ", "L", "i", "q", "u", "e", "u", "r">>>>,
    <<<<"H", "e", "r", "b", "a", "l", " ", "L", "i", "q", "u", "e", "u", "r", "s">>,
     <<"H", "e", "r", "b", "a", "l", " ", "L", "i", "q", "u", "e", "u", "r">>>>,
    <<<<"F", "r", "u", "i", "t", " ", "L", "i", "q", "u", "e", "u", "r">>,
     <<"F", "r", "u", "i", "t", " ", "L", "i", "q", "u", "e", "u", "r">>>>,
    <<<<"F", "r", "u", "i", "t", " ", "L", "i", "q", "u", "e", "u", "r", "s">>,
     <<"F", "r", "u", "i", "t", " ", "L", "i", "q", "u", "e", "u", "r">>>>,
    <<<<"B", "r", "a", "n", "d", "y">>,
     <<"B", "r", "a", "n", "d", "y">>>>,
    <<<<"C", "o", "g", "n", "a", "c">>,
     <<"C", "o", "g", "n", "a", "c">>>>,
    <<<<"A", "r", "m", "a", "g", "n", "a", "c">>,
     <<"A", "r", "m", "a", "g", "n", "a", "c">>>>,
    <<<<"P", "i", "s", "c", "o">>,
     <<"P", "i", "s", "c", "o">>>>,
    <<<<"A", "p", "e", "r", "i", "t", "i", "f">>,
     <<"A", "p", "e", "r", "i", "t", "i", "f">>>>,
    <<<<"A", "p", "e", "r", "i", "t", "i", "f", "s">>,
     <<"A", "p", "e", "r", "i", "t", "i", "f">>>>,
    <<<<"D", "i", "g", "e", "s", "t", "i", "f">>,
     <<"D", "i", "g", "e", "s", "t", "i", "f">>>>,
    <<<<"D", "i", "g", "e", "s", "t", "i", "f", "s">>,
     <<"D", "i", "g", "e", "s", "t", "i", "f">>>>,
    <<<<"V", "e", "r", "m", "o", "u", "t", "h">>,
     <<"V", "e", "r", "m", "o", "u", "t", "h">>>>,
    <<<<"B", "i", "t", "t", "e", "r", "s">>,
     <<"B", "i", "t", "t", "e", "r", "s">>>>,
    <<<<"A", "b", "s", "i", "n", "t", "h", "e">>,
     <<"A", "b", "s", "i", "n", "t", "h", "e">>>>,
    <<<<"S", "a", "k", "e">>,
     <<"S", "a", "k", "e">>>>,
    <<<<"S", "o", "j", "u">>,
     <<"S", "o", "j", "u">>>>,
    <<<<"B", "a", "i", "j", "i", "u">>,
     <<"B", "a", "i", "j", "i", "u">>>>>>

\* the number the ratio must exceed, in hundredths
SubcategoryThreshold == 90

\* ratio > threshold, the threshold given in hundredths
RatioAbove(r, pct) == 100 * r[1] > pct * r[2]

\* the position in the table of a key, 0 when it is no key
KeyPosition(cleaned) ==
  IF \E i \in 1..Len(SUBCATEGORY_NORMALIZATIONS) :
       SUBCATEGORY_NORMALIZATIONS[i][1] = cleaned
  THEN CHOOSE i \in 1..Len(SUBCATEGORY_NORMALIZATIONS) :
         SUBCATEGORY_NORMALIZATIONS[i][1] = cleaned
  ELSE 0

\* the score the loop compares with 0.9 for one key of the table
SubcategoryScoreOf(cleaned, original) == Ratio(Lower(cleaned), Lower(original))

\* the loop, had the code asked for a ratio above 0.75 only
RECURSIVE FirstCloseMatchLoose(_, _)
FirstCloseMatchLoose(cleaned, i) ==
  IF i > Len(SUBCATEGORY_NORMALIZATIONS) THEN 0
  ELSE IF RatioAbove(SubcategoryScoreOf(cleaned, SUBCATEGORY_NORMALIZATIONS[i][1]), 75)
  THEN i
  ELSE FirstCloseMatchLoose(cleaned, i + 1)

\* the loop, had the code compared the ratio with >= instead of >
RECURSIVE FirstCloseMatchOrEqual(_, _)
FirstCloseMatchOrEqual(cleaned, i) ==
  IF i > Len(SUBCATEGORY_NORMALIZATIONS) THEN 0
  ELSE IF RatioAtLeast(SubcategoryScoreOf(cleaned, SUBCATEGORY_NORMALIZATIONS[i][1]),
                       SubcategoryThreshold)
  THEN i
  ELSE FirstCloseMatchOrEqual(cleaned, i + 1)

\* the loop over the table from the i-th pair on: the position of the first
\* key whose ratio exceeds 0.9, 0 when there is none
RECURSIVE FirstCloseMatch(_, _)
FirstCloseMatch(cleaned, i) ==
  IF i > Len(SUBCATEGORY_NORMALIZATIONS) THEN 0
  ELSE IF RatioAbove(SubcategoryScoreOf(cleaned, SUBCATEGORY_NORMALIZATIONS[i][1]),
                     SubcategoryThreshold)
  THEN i
  ELSE FirstCloseMatch(cleaned, i + 1)

normalize_subcategory(sub) ==
  IF sub = <<>> THEN <<>>
  ELSE LET cleaned == Strip(sub)
       IN  IF KeyPosition(cleaned) # 0
           THEN SUBCATEGORY_NORMALIZATIONS[KeyPosition(cleaned)][2]
           ELSE IF FirstCloseMatch(cleaned, 1) # 0
           THEN SUBCATEGORY_NORMALIZATIONS[FirstCloseMatch(cleaned, 1)][2]
           ELSE cleaned

(***************************************************************************)
(* AlcoholDataProcessor.normalize_brand_alternatives                       *)
(***************************************************************************)
\* str.replace(c, "") for a one-character c
RECURSIVE Without(_, _)
Without(s, c) ==
  IF s = <<>> THEN <<>>
  ELSE (IF Head(s) = c THEN <<>> ELSE <<Head(s)>>) \o Without(Tail(s), c)

\* the key brand names are grouped by: lower-cased, ' and " removed
BrandKey(brand_name) == Without(Without(Lower(brand_name), "'"), "\"")

IsUpperLetter(c) == \E i \in 1..Len(UpperLetters) : UpperLetters[i] = c
IsLowerLetter(c) == \E i \in 1..Len(LowerLetters) : LowerLetters[i] = c

\* str.isupper(): there is a cased character and none is lower case
IsUpper(s) ==
  /\ \E i \in 1..Len(s) : IsUpperLetter(s[i])
  /\ \A i \in 1..Len(s) : ~IsLowerLetter(s[i])

\* len(s.split()): the number of runs of characters that are not whitespace
WordCount(s) ==
  Cardinality({i \in 1..Len(s) : ~IsSpace(s[i]) /\ (i = 1 \/ IsSpace(s[i - 1]))})

\* s.count('  ') from position i on: the occurrences do not overlap
RECURSIVE CountDoubleSpace(_, _)
CountDoubleSpace(s, i) ==
  IF i + 1 > Len(s) THEN 0
  ELSE IF s[i] = " " /\ s[i + 1] = " " THEN 1 + CountDoubleSpace(s, i + 2)
  ELSE CountDoubleSpace(s, i + 1)

\* score_brand of a brand name that is not empty
score_brand(brand) ==
  (IF \E i \in 1..Len(brand) : brand[i] = "'" THEN 10 ELSE 0)
  + (IF IsUpper(brand) THEN -5
     ELSE IF IsUpperLetter(brand[1]) /\ ~IsUpper(brand) THEN 5
     ELSE 0)
  - WordCount(brand)
  - CountDoubleSpace(brand, 1)

\* the choice, had max() returned the last of the alternatives of the
\* highest score
choose_last_best_brand_name(alternatives) ==
  IF alternatives = <<>> THEN <<>>
  ELSE alternatives[CHOOSE i \in 1..Len(alternatives) :
         \A k \in 1..Len(alternatives) :
           \/ score_brand(alternatives[k]) < score_brand(alternatives[i])
           \/ (score_brand(alternatives[k]) = score_brand(alternatives[i]) /\ k <= i)]

\* max(scored_alternatives, key=...): the first of the alternatives of the
\* highest score
choose_best_brand_name(alternatives) ==
  IF alternatives = <<>> THEN <<>>
  ELSE alternatives[CHOOSE i \in 1..Len(alternatives) :
         \A k \in 1..Len(alternatives) :
           \/ score_brand(alternatives[k]) < score_brand(alternatives[i])
           \/ (score_brand(alternatives[k]) = score_brand(alternatives[i]) /\ i <= k)]

\* brand_groups after the first n products: the brand names of each key
RECURSIVE BrandNameGroups(_, _)
BrandNameGroups(ps, n) ==
  IF n = 0 THEN <<>>
  ELSE LET groups == BrandNameGroups(ps, n - 1)
           brand_name == ps[n].brand_name
       IN  IF brand_name # <<>>
           THEN GroupAppend(groups, BrandKey(brand_name), brand_name)
           ELSE groups

\* brand_mapping: each alternative of a group of more than one name that is
\* not the best name of the group, mapped to the best name
BrandMapping(groups) ==
  LET pairs == UNION {{<<groups[g].items[k], choose_best_brand_name(groups[g].items)>> :
                         k \in {k \in 1..Len(groups[g].items) :
                                  groups[g].items[k] #
                                    choose_best_brand_name(groups[g].items)}} :
                      g \in {g \in 1..Len(groups) : Len(groups[g].items) > 1}}
  IN  [alternative \in {p[1] : p \in pairs} |->
         (CHOOSE p \in pairs : p[1] = alternative)[2]]

normalize_brand_alternatives(ps) ==
  [i \in 1..Len(ps) |->
     IF ps[i].brand_name \in DOMAIN BrandMapping(BrandNameGroups(ps, Len(ps)))
     THEN [ps[i] EXCEPT !.brand_name =
             BrandMapping(BrandNameGroups(ps, Len(ps)))[ps[i].brand_name]]
     ELSE ps[i]]

(***************************************************************************)
(* Inputs.                                                                 *)
(***************************************************************************)
DedupBrands == {<<>>, <<"a">>, <<"A", " ">>, <<"|">>}
DedupProducts == {<<>>, <<"c">>, <<"c", "d">>, <<"D">>, <<"|", "c">>}

\* a record as process_existing_data builds it: source is always 'Existing'
DedupPool ==
  {Product(0, b, n, "", "", "", "Existing") :
     <<b, n>> \in (DedupBrands \X DedupProducts) \ {<<(<<>>), (<<>>)>>}}

WithRows(f) == [i \in 1..Len(f) |-> [f[i] EXCEPT !.row = i]]

\* the scenario of the specification: two spellings of one product and another
SmirnoffExample ==
  WithRows(<<
    Product(0, <<"S","m","i","r","n","o","f","f">>,
               <<"V","o","d","k","a"," ","7","5","0","m","l">>, "", "", "", "Existing"),
    Product(0, <<"S","M","I","R","N","O","F","F">>,
               <<"v","o","d","k","a"," ","7","5","0","m","l">>, "", "", "", "Existing"),
    Product(0, <<"S","m","i","r","n","o","f","f">>,
               <<"V","o","d","k","a"," ","1","L">>, "", "", "", "Existing")>>)

DedupInputs ==
  {WithRows(f) : f \in UNION {[1..n -> DedupPool] : n \in 0..MaxProducts}}
    \cup {SmirnoffExample}

\* CONFIG["similarity_threshold"], in hundredths: the value the file sets, and
\* the values tried in fuzzy mode (exact mode does not read it)
DefaultThreshold == 90
Thresholds == {60, DefaultThreshold}

\* what one member of a cluster handed to the merger may carry
MemberChoices ==
  [image : BOOLEAN, price : BOOLEAN, lcbo : BOOLEAN, from_lcbo : BOOLEAN, long : BOOLEAN]

Urls == <<"u1", "u2", "u3", "u4", "u5">>
Prices == <<"11", "12", "13", "14", "15">>
Ids == <<"701", "702", "703", "704", "705">>

Member(i, c) ==
  Product(i, <<"a">>,
          IF c.long THEN <<"c", "d">> ELSE <<"c">>,
          IF c.image THEN Urls[i] ELSE "",
          IF c.price THEN Prices[i] ELSE "",
          IF c.lcbo THEN Ids[i] ELSE "",
          IF c.from_lcbo THEN "LCBO" ELSE "Existing")

\* a cluster of the members chosen by f, one choice for each place
Cluster(f) == [i \in 1..Len(f) |-> Member(i, f[i])]

\* the variables of the parts that do not run
RestorerIdle ==
  /\ current_products = <<>>
  /\ backup_data = <<>>
  /\ backup_column_mapping = <<>>
  /\ fuzzy_match_threshold = 0
  /\ updated_products = <<>>
  /\ current_product = <<>>
  /\ best_match = <<>>
  /\ best_score = <<0, 1>>

ScorerIdle == str1 = <<>> /\ str2 = <<>> /\ similarity = <<0, 1>>

NormalizerIdle == subcategory = <<>> /\ normalized = <<>> /\ normalized_again = <<>>

MappingIdle == headers = <<>> /\ column_mapping = <<>>

RunIdle ==
  /\ script = ""
  /\ config = <<>>
  /\ confirm = ""
  /\ stages = <<>>
  /\ sheet_updates = 0

SheetIdle ==
  /\ existing_data = <<>>
  /\ duplicate_row_indices = <<>>
  /\ delete_requests = <<>>

DedupIdle ==
  /\ products = <<>>
  /\ use_exact_matching = TRUE
  /\ similarity_threshold = 0
  /\ duplicates = <<>>
  /\ merged_products = <<>>
  /\ final_products = <<>>

(***************************************************************************)
(* Duplicate detection and removal on a list of products.                  *)
(***************************************************************************)
InitDedup ==
  /\ products \in DedupInputs
  /\ use_exact_matching \in BOOLEAN
  /\ similarity_threshold \in (IF use_exact_matching THEN {DefaultThreshold} ELSE Thresholds)
  /\ duplicates = <<>>
  /\ merged_products = <<>>
  /\ final_products = <<>>
  /\ pc = "start"
  /\ RestorerIdle /\ ScorerIdle /\ NormalizerIdle /\ MappingIdle /\ RunIdle /\ SheetIdle

\* AlcoholDataProcessor.find_duplicates
FindDuplicates ==
  /\ pc = "start"
  /\ duplicates' = find_duplicates(products, use_exact_matching, similarity_threshold)
  /\ pc' = "found"
  /\ UNCHANGED <<products, use_exact_matching, similarity_threshold,
                 merged_products, final_products>>
  /\ UNCHANGED <<restorer_vars, scorer_vars, normalizer_vars, mapping_vars,
                 run_vars, sheet_vars>>

\* AlcoholDataProcessor.remove_duplicates
RemoveDuplicates ==
  /\ pc = "start"
  /\ duplicates' = find_duplicates(products, use_exact_matching, similarity_threshold)
  /\ merged_products' = IF duplicates' = <<>> THEN <<>> ELSE merge_duplicates(duplicates')
  /\ final_products' = remove_duplicates(products, use_exact_matching, similarity_threshold)
  /\ pc' = "removed"
  /\ UNCHANGED <<products, use_exact_matching, similarity_threshold>>
  /\ UNCHANGED <<restorer_vars, scorer_vars, normalizer_vars, mapping_vars,
                 run_vars, sheet_vars>>

\* AlcoholDataIntegrityOrchestrator.run_duplicate_detection
RunDuplicateDetection ==
  /\ pc = "start"
  /\ \E run_duplicate_detection \in BOOLEAN :
       IF ~run_duplicate_detection
       THEN /\ final_products' = products
            /\ pc' = "detection_disabled"
            /\ UNCHANGED <<duplicates, merged_products>>
       ELSE /\ duplicates' =
                 find_duplicates(products, use_exact_matching, similarity_threshold)
            /\ IF duplicates' # <<>>
               THEN /\ merged_products' = merge_duplicates(duplicates')
                    /\ final_products' = merged_products'
               ELSE /\ merged_products' = <<>>
                    /\ final_products' = products
            /\ pc' = "detected"
  /\ UNCHANGED <<products, use_exact_matching, similarity_threshold>>
  /\ UNCHANGED <<restorer_vars, scorer_vars, normalizer_vars, mapping_vars,
                 run_vars, sheet_vars>>

\* DataIntegrityProcessor.run, steps 6 to 8
LcboRun ==
  /\ pc = "start"
  /\ duplicates' = lcbo_find_duplicates(products)
  /\ merged_products' = lcbo_merge_duplicates(duplicates')
  /\ final_products' = merged_products'
  /\ pc' = "lcbo_done"
  /\ UNCHANGED <<products, use_exact_matching, similarity_threshold>>
  /\ UNCHANGED <<restorer_vars, scorer_vars, normalizer_vars, mapping_vars,
                 run_vars, sheet_vars>>

NextDedup == FindDuplicates \/ RemoveDuplicates \/ RunDuplicateDetection \/ LcboRun

SpecDedup == InitDedup /\ [][NextDedup]_vars

(***************************************************************************)
(* Duplicate detection on names that contain the separator of the key.     *)
(***************************************************************************)
BarPool ==
  {Product(0, b, n, "", "", "", "Existing") :
     <<b, n>> \in {<<"a">>, <<"a", "|">>, <<"A", " ">>} \X {<<"c">>, <<"|", "c">>}}

InitBarKeys ==
  /\ \E n \in 0..MaxProducts :
       \E f \in [1..n -> BarPool] : products = WithRows(f)
  /\ use_exact_matching = TRUE
  /\ similarity_threshold = DefaultThreshold
  /\ duplicates = <<>>
  /\ merged_products = <<>>
  /\ final_products = <<>>
  /\ pc = "start"
  /\ RestorerIdle /\ ScorerIdle /\ NormalizerIdle /\ MappingIdle /\ RunIdle /\ SheetIdle

SpecBarKeys == InitBarKeys /\ [][NextDedup]_vars

(***************************************************************************)
(* The merger on a list of clusters.                                       *)
(***************************************************************************)
InitMerge ==
  /\ products = <<>>
  /\ use_exact_matching = TRUE
  /\ similarity_threshold = DefaultThreshold
  /\ \E n \in 1..MaxCluster :
       \E f \in [1..n -> MemberChoices] : duplicates = <<Cluster(f)>>
  /\ merged_products = <<>>
  /\ final_products = <<>>
  /\ pc = "start"
  /\ RestorerIdle /\ ScorerIdle /\ NormalizerIdle /\ MappingIdle /\ RunIdle /\ SheetIdle

\* AlcoholDataProcessor.merge_duplicates
MergeDuplicates ==
  /\ pc = "start"
  /\ merged_products' = merge_duplicates(duplicates)
  /\ pc' = "merged"
  /\ UNCHANGED <<products, use_exact_matching, similarity_threshold, duplicates,
                 final_products>>
  /\ UNCHANGED <<restorer_vars, scorer_vars, normalizer_vars, mapping_vars,
                 run_vars, sheet_vars>>

\* DataIntegrityProcessor.merge_duplicates
LcboMergeDuplicates ==
  /\ pc = "start"
  /\ merged_products' = lcbo_merge_duplicates(duplicates)
  /\ pc' = "lcbo_merged"
  /\ UNCHANGED <<products, use_exact_matching, similarity_threshold, duplicates,
                 final_products>>
  /\ UNCHANGED <<restorer_vars, scorer_vars, normalizer_vars, mapping_vars,
                 run_vars, sheet_vars>>

NextMerge == MergeDuplicates \/ LcboMergeDuplicates

SpecMerge == InitMerge /\ [][NextMerge]_vars

(***************************************************************************)
(* The merger on a list of clusters some of which may be empty.            *)
(***************************************************************************)
MaxClusters == 2
MaxMembers == 1

\* the clusters a caller may hand to the merger: of no member, or of members
\* that carry an image, a price and a long name or not
ClusterPool ==
  {Cluster(f) : f \in UNION {[1..n -> {c \in MemberChoices : ~c.lcbo /\ ~c.from_lcbo}] :
                               n \in 0..MaxMembers}}

InitMergeLists ==
  /\ products = <<>>
  /\ use_exact_matching = TRUE
  /\ similarity_threshold = DefaultThreshold
  /\ \E n \in 1..MaxClusters : duplicates \in [1..n -> ClusterPool]
  /\ merged_products = <<>>
  /\ final_products = <<>>
  /\ pc = "start"
  /\ RestorerIdle /\ ScorerIdle /\ NormalizerIdle /\ MappingIdle /\ RunIdle /\ SheetIdle

SpecMergeLists == InitMergeLists /\ [][NextMerge]_vars

(***************************************************************************)
(* Backup restoration on the current products and a backup sheet.          *)
(***************************************************************************)
MaxCurrent == 2
MaxBackup == 2

\* a current product as process_existing_data builds it
RestorerProduct(brand_name, product_name, gluten_free_score, descriptors) ==
  [brand_name |-> brand_name, product_name |-> product_name,
   gluten_free_score |-> gluten_free_score, descriptors |-> descriptors,
   price |-> <<"1", "2">>, source |-> "Existing"]

CurrentPool ==
  {RestorerProduct(<<"a">>, <<"c", "d", "c">>, <<>>, <<>>),
   RestorerProduct(<<"a">>, <<"c", "d", "c">>, <<"1">>, <<"q">>),
   RestorerProduct(<<"a">>, <<"c">>, <<"1">>, <<>>)}

\* the header rows of the backup sheet: every field, no score column, and no
\* header that a rule matches
BackupHeaderRows ==
  {<<<<"B", "r", "a", "n", "d", " ", "N", "a", "m", "e">>, <<"P", "r", "o", "d", "u", "c", "t", " ", "N", "a", "m", "e">>, <<"G", "l", "u", "t", "e", "n", " ", "F", "r", "e", "e", " ", "S", "c", "o", "r", "e">>, <<"D", "e", "s", "c", "r", "i", "p", "t", "o", "r", "s">>>>,
   <<<<"B", "r", "a", "n", "d", " ", "N", "a", "m", "e">>, <<"P", "r", "o", "d", "u", "c", "t", " ", "N", "a", "m", "e">>, <<"N", "o", "t", "e", "s">>, <<"D", "e", "s", "c", "r", "i", "p", "t", "o", "r", "s">>>>,
   <<<<"N", "o", "t", "e", "s">>>>}

\* the data rows of the backup sheet; the last one lacks its fourth cell
BackupRowPool ==
  {<<<<"a">>, <<"c", "d", "c">>, <<"5">>, <<"x">>>>,
   <<<<"A", " ">>, <<" ", "C", "D", "C">>, <<" ">>, <<>>>>,
   <<<<"a">>, <<"c", "d">>, <<"7">>, <<" ">>>>,
   <<<<"b">>, <<>>, <<"9">>, <<"v">>>>,
   <<<<"a">>, <<"c", "d", "c">>, <<"5">>>>}

\* CONFIG["fuzzy_match_threshold"]: the value the file sets, and 0
RestoreThresholds == {0, FuzzyMatchThreshold}

\* the backup sheet is empty, or it has a header row and data rows;
\* get_backup_sheet_data builds the mapping from the header row
InitRestore ==
  /\ \E n \in 1..MaxCurrent : current_products \in [1..n -> CurrentPool]
  /\ \/ backup_data = <<>>
     \/ \E h \in BackupHeaderRows :
          \E n \in 0..MaxBackup :
            \E rows \in [1..n -> BackupRowPool] : backup_data = <<h>> \o rows
  /\ backup_column_mapping =
       IF backup_data = <<>> THEN <<>> ELSE get_column_mapping(backup_data[1])
  /\ fuzzy_match_threshold \in RestoreThresholds
  /\ updated_products = <<>>
  /\ current_product = <<>>
  /\ best_match = <<>>
  /\ best_score = <<0, 1>>
  /\ DedupIdle /\ ScorerIdle /\ NormalizerIdle /\ MappingIdle /\ RunIdle /\ SheetIdle
  /\ pc = "start"

\* AlcoholBackupRestorer.find_best_match on one current product and the
\* backup products restore_from_backup built
FindBestMatch ==
  /\ pc = "start"
  /\ ~RestoreRaises(backup_data, backup_column_mapping)
  /\ \E i \in 1..Len(current_products) :
       LET found == find_best_match(current_products[i],
                                    BackupProducts(backup_data, backup_column_mapping),
                                    fuzzy_match_threshold)
       IN  /\ current_product' = current_products[i]
           /\ best_match' = found.best_match
           /\ best_score' = found.best_score
  /\ pc' = "matched"
  /\ UNCHANGED <<current_products, backup_data, backup_column_mapping,
                 fuzzy_match_threshold, updated_products>>
  /\ UNCHANGED <<dedup_vars, scorer_vars, normalizer_vars, mapping_vars,
                 run_vars, sheet_vars>>

\* AlcoholBackupRestorer.restore_from_backup
RestoreFromBackup ==
  /\ pc = "start"
  /\ IF RestoreRaises(backup_data, backup_column_mapping)
     THEN /\ pc' = "restore_raised"
          /\ UNCHANGED updated_products
     ELSE /\ updated_products' =
               restore_from_backup(current_products, backup_data,
                                   backup_column_mapping, fuzzy_match_threshold)
          /\ pc' = "restored"
  /\ UNCHANGED <<current_products, backup_data, backup_column_mapping,
                 fuzzy_match_threshold, current_product, best_match, best_score>>
  /\ UNCHANGED <<dedup_vars, scorer_vars, normalizer_vars, mapping_vars,
                 run_vars, sheet_vars>>

NextRestore == FindBestMatch \/ RestoreFromBackup

SpecRestore == InitRestore /\ [][NextRestore]_vars

(***************************************************************************)
(* The similarity scores on two strings.                                   *)
(***************************************************************************)
MaxLen == 3

ScorerAlphabet == {"c", "C", "d", " "}

\* the strings over the alphabet of at most n characters
ScorerStrings(n) == UNION {[1..k -> ScorerAlphabet] : k \in 0..n}

\* the keys of the table
SubcategoryKeys ==
  {SUBCATEGORY_NORMALIZATIONS[i][1] : i \in 1..Len(SUBCATEGORY_NORMALIZATIONS)}

\* str1 is any string; str2 is any string or a key of the table
InitScorer ==
  /\ str1 \in ScorerStrings(MaxLen)
  /\ str2 \in ScorerStrings(MaxLen) \cup SubcategoryKeys
  /\ similarity = <<0, 1>>
  /\ DedupIdle /\ RestorerIdle /\ NormalizerIdle /\ MappingIdle /\ RunIdle /\ SheetIdle
  /\ pc = "start"

\* AlcoholBackupRestorer.calculate_similarity
CalculateSimilarity ==
  /\ pc = "start"
  /\ similarity' = calculate_similarity(str1, str2)
  /\ pc' = "scored"
  /\ UNCHANGED <<str1, str2>>
  /\ UNCHANGED <<dedup_vars, restorer_vars, normalizer_vars, mapping_vars,
                 run_vars, sheet_vars>>

\* the inner loop of AlcoholDataProcessor.find_duplicates on two products of
\* one brand with the product names str1 and str2
DuplicateScore ==
  /\ pc = "start"
  /\ Lower(str1) # <<>> /\ Lower(str2) # <<>>
  /\ similarity' = DuplicateScoreOf(str1, str2)
  /\ pc' = "duplicate_scored"
  /\ UNCHANGED <<str1, str2>>
  /\ UNCHANGED <<dedup_vars, restorer_vars, normalizer_vars, mapping_vars,
                 run_vars, sheet_vars>>

\* the loop of AlcoholDataProcessor.normalize_subcategory on the subcategory
\* str1, which is no key of the table once trimmed, at the key str2
SubcategoryScore ==
  /\ pc = "start"
  /\ str1 # <<>>
  /\ KeyPosition(Strip(str1)) = 0
  /\ str2 \in SubcategoryKeys
  /\ similarity' = SubcategoryScoreOf(Strip(str1), str2)
  /\ pc' = "subcategory_scored"
  /\ UNCHANGED <<str1, str2>>
  /\ UNCHANGED <<dedup_vars, restorer_vars, normalizer_vars, mapping_vars,
                 run_vars, sheet_vars>>

NextScorer == CalculateSimilarity \/ DuplicateScore \/ SubcategoryScore

SpecScorer == InitScorer /\ [][NextScorer]_vars

(***************************************************************************)
(* Subcategory normalization, applied once and again.                      *)
(***************************************************************************)
Padded(s) == <<" ">> \o s \o <<" ">>

\* subcategories as the sheet may hold them: canonical values that are no
\* keys, keys, and strings that are near a key or far from every key
SubcategoryBase ==
  {<<"G", "i", "f", "t", "s", " ", "a", "n", "d", " ", "S", "a", "m", "p", "l", "e", "r", "s">>, <<"B", "e", "e", "r">>, <<"R", "e", "d", " ", "W", "i", "n", "e", "s">>, <<"W", "h", "i", "t", "e", " ", "W", "i", "n", "e", "s">>,
   <<"R", "o", "s", "e", " ", "W", "i", "n", "e", "s">>, <<"S", "p", "a", "r", "k", "l", "i", "n", "g", " ", "W", "i", "n", "e", "s">>, <<"D", "e", "s", "s", "e", "r", "t", " ", "W", "i", "n", "e", "s">>, <<"F", "o", "r", "t", "i", "f", "i", "e", "d", " ", "W", "i", "n", "e", "s">>,
   <<"S", "c", "o", "t", "c", "h", " ", "W", "h", "i", "s", "k", "y">>, <<"B", "o", "u", "r", "b", "o", "n", " ", "W", "h", "i", "s", "k", "e", "y">>, <<"R", "y", "e", " ", "W", "h", "i", "s", "k", "e", "y">>,
   <<"W", "h", "i", "s", "k", "y">>, <<"S", "c", "o", "t", "c", "h">>, <<"R", "y", "e">>, <<"G", "i", "n">>, <<"R", "o", "s", "e", " ", "W", "i", "n", "e">>, <<"B", "e", "e", "r", " ", "&", " ", "C", "i", "d", "e", "r">>,
   <<"C", "a", "n", "a", "d", "i", "a", "n", " ", "W", "h", "i", "s", "k", "e", "y">>, <<"L", "i", "q", "u", "e", "u", "r", "s">>,
   <<"R", "u", "m", "s">>, <<"G", "i", "n", "s">>, <<"S", "a", "k", "e", "s">>, <<"V", "o", "d", "k", "a", "s">>, <<"R", "y", "e", " ", "W", "h", "i", "s", "k", "o">>, <<"S", "c", "o", "t", "c", "h", " ", "W", "h", "i", "s", "k", "e", "e">>,
   <<"S", "o", "d", "a">>, <<"W", "i", "n", "e">>, <<>>}

SubcategoryInputs ==
  SubcategoryBase
    \cup {Padded(s) : s \in SubcategoryBase}
    \cup {Lower(s) : s \in SubcategoryBase}

InitNormalize ==
  /\ subcategory \in SubcategoryInputs
  /\ normalized = <<>>
  /\ normalized_again = <<>>
  /\ DedupIdle /\ RestorerIdle /\ ScorerIdle /\ MappingIdle /\ RunIdle /\ SheetIdle
  /\ pc = "start"

\* AlcoholDataProcessor.normalize_subcategory
NormalizeSubcategory ==
  /\ pc = "start"
  /\ normalized' = normalize_subcategory(subcategory)
  /\ pc' = "normalized"
  /\ UNCHANGED <<subcategory, normalized_again>>
  /\ UNCHANGED <<dedup_vars, restorer_vars, scorer_vars, mapping_vars,
                 run_vars, sheet_vars>>

\* AlcoholDataProcessor.normalize_subcategory on its own result
NormalizeSubcategoryAgain ==
  /\ pc = "normalized"
  /\ normalized_again' = normalize_subcategory(normalized)
  /\ pc' = "normalized_again"
  /\ UNCHANGED <<subcategory, normalized>>
  /\ UNCHANGED <<dedup_vars, restorer_vars, scorer_vars, mapping_vars,
                 run_vars, sheet_vars>>

NextNormalize == NormalizeSubcategory \/ NormalizeSubcategoryAgain

SpecNormalize == InitNormalize /\ [][NextNormalize]_vars

(***************************************************************************)
(* Brand consolidation on a list of products.                              *)
(***************************************************************************)
\* brand names as the sheet may hold them: spellings of one brand that
\* differ in case, apostrophe and quotes, two spellings of another, and none
BrandPool ==
  {<<>>, <<"B", "a", "i", "l", "e", "y", "s">>, <<"B", "a", "i", "l", "e", "y", "'", "s">>, <<"B", "A", "I", "L", "E", "Y", "S">>, <<"b", "a", "i", "l", "e", "y", "s">>,
   <<"\"", "B", "a", "i", "l", "e", "y", "s", "\"">>,
   <<"O", " ", "'", " ", "N">>, <<"O", " ", " ", "N">>}

InitBrands ==
  /\ \E n \in 0..MaxProducts :
       \E f \in [1..n -> BrandPool] :
         products = [i \in 1..n |-> Product(i, f[i], <<"c">>, "", "", "", "Existing")]
  /\ use_exact_matching = TRUE
  /\ similarity_threshold = 0
  /\ duplicates = <<>>
  /\ merged_products = <<>>
  /\ final_products = <<>>
  /\ RestorerIdle /\ ScorerIdle /\ NormalizerIdle /\ MappingIdle /\ RunIdle /\ SheetIdle
  /\ pc = "start"

\* AlcoholDataProcessor.normalize_brand_alternatives
NormalizeBrandAlternatives ==
  /\ pc = "start"
  /\ final_products' = normalize_brand_alternatives(products)
  /\ pc' = "brands_normalized"
  /\ UNCHANGED <<products, use_exact_matching, similarity_threshold, duplicates,
                 merged_products>>
  /\ UNCHANGED <<restorer_vars, scorer_vars, normalizer_vars, mapping_vars,
                 run_vars, sheet_vars>>

NextBrands == NormalizeBrandAlternatives

SpecBrands == InitBrands /\ [][NextBrands]_vars

(***************************************************************************)
(* The column mapping of a header row.                                     *)
(***************************************************************************)
MaxHeaders == 3

\* headers as a sheet may carry them: the headers of the product sheet,
\* spellings with _ and -, headers that meet several rules, headers that
\* meet none
HeaderPool ==
  {<<"B", "r", "a", "n", "d", " ", "N", "a", "m", "e">>, <<"b", "r", "a", "n", "d">>, <<"B", "r", "a", "n", "d", " ", "P", "r", "o", "d", "u", "c", "t", " ", "N", "a", "m", "e">>, <<"P", "r", "o", "d", "u", "c", "t", " ", "N", "a", "m", "e">>,
   <<"P", "r", "o", "d", "u", "c", "t", " ", "P", "r", "i", "c", "e">>, <<"D", "e", "s", "c", "r", "i", "p", "t", "o", "r", "s">>, <<"G", "l", "u", "t", "e", "n", " ", "F", "r", "e", "e", " ", "S", "c", "o", "r", "e">>, <<"g", "l", "u", "t", "e", "n", "-", "f", "r", "e", "e">>,
   <<"I", "D">>, <<" ", "l", "c", "b", "o", "_", "i", "d", " ">>, <<"I", "m", "a", "g", "e", " ", "S", "o", "u", "r", "c", "e", " ", "U", "R", "L">>, <<"C", "a", "t", "e", "g", "o", "r", "y">>, <<"S", "u", "b", "c", "a", "t", "e", "g", "o", "r", "y">>,
   <<"S", "u", "b", "-", "C", "a", "t", "e", "g", "o", "r", "y">>, <<"S", "o", "u", "r", "c", "e">>, <<"N", "o", "t", "e", "s">>, <<>>}

InitMapping ==
  /\ \E n \in 0..MaxHeaders : headers \in [1..n -> HeaderPool]
  /\ column_mapping = <<>>
  /\ DedupIdle
  /\ RestorerIdle /\ ScorerIdle /\ NormalizerIdle /\ RunIdle /\ SheetIdle
  /\ pc = "start"

\* GoogleSheetsClient.get_column_mapping
GetColumnMapping ==
  /\ pc = "start"
  /\ column_mapping' = get_column_mapping(headers)
  /\ pc' = "mapped"
  /\ UNCHANGED <<headers, dedup_vars, restorer_vars, scorer_vars, normalizer_vars,
                 run_vars, sheet_vars>>

NextMapping == GetColumnMapping

SpecMapping == InitMapping /\ [][NextMapping]_vars

(***************************************************************************)
(* A run of the orchestrator: AlcoholDataIntegrityOrchestrator.run with    *)
(* run_ai_brand_extraction and run_product_name_filling off, as CONFIG     *)
(* sets them.                                                              *)
(***************************************************************************)
\* the header row of the product sheet
RunHeader ==
  <<<<"B", "r", "a", "n", "d", " ", "N", "a", "m", "e">>, <<"P", "r", "o", "d", "u", "c", "t", " ", "N", "a", "m", "e">>, <<"P", "r", "i", "c", "e">>, <<"I", "m", "a", "g", "e", " ", "U", "R", "L">>, <<"L", "C", "B", "O", " ", "I", "D">>>>

\* data rows of the product sheet: two spellings of one brand, the second
\* row without its last two cells, the third a repetition of the first
RunRowPool ==
  {<<<<"B", "a", "i", "l", "e", "y", "s">>, <<"c">>, "11", "u1", "701">>,
   <<<<"B", "a", "i", "l", "e", "y", "'", "s">>, <<"c">>, "12">>,
   <<<<"B", "a", "i", "l", "e", "y", "s">>, <<"c">>, "13">>}

\* the backup sheet: no rows at all, a header and a row, a header that maps
\* no field and a row
RunBackups ==
  {<<>>,
   <<<<<<"B", "r", "a", "n", "d", " ", "N", "a", "m", "e">>, <<"P", "r", "o", "d", "u", "c", "t", " ", "N", "a", "m", "e">>, <<"G", "l", "u", "t", "e", "n", " ", "F", "r", "e", "e", " ", "S", "c", "o", "r", "e">>, <<"D", "e", "s", "c", "r", "i", "p", "t", "o", "r", "s">>>>,
     <<<<"B", "a", "i", "l", "e", "y", "'", "s">>, <<"c">>, <<"5">>, <<"x">>>>>>,
   <<<<<<"N", "o", "t", "e", "s">>>>, <<<<"x">>>>>>}

\* the flags of CONFIG a run reads
ConfigFlags ==
  [run_exact_duplicate_removal : BOOLEAN, run_duplicate_detection : BOOLEAN,
   run_brand_normalization : BOOLEAN, run_backup_restoration : BOOLEAN,
   run_sheet_update : BOOLEAN, test_mode : BOOLEAN,
   use_exact_duplicate_matching : BOOLEAN]

\* the test, had the code not asked for test_mode
SheetUpdateEnabledInTestMode(flags) == flags.run_sheet_update

\* the run comes to the prompt: the update is on and test_mode is off
SheetUpdateEnabled(flags) == flags.run_sheet_update /\ ~flags.test_mode

\* what the operator may type at the prompt
ConfirmInputs == {"YES", "yes", "YES ", ""}

InitOrchestrator ==
  /\ script = "orchestrator"
  /\ config \in ConfigFlags
  /\ \E n \in 0..MaxCurrent :
       \E rows \in [1..n -> RunRowPool] : existing_data = <<RunHeader>> \o rows
  /\ backup_data \in RunBackups
  /\ confirm = ""
  /\ stages = <<>>
  /\ sheet_updates = 0
  /\ duplicate_row_indices = <<>>
  /\ delete_requests = <<>>
  /\ current_products = <<>>
  /\ backup_column_mapping = <<>>
  /\ fuzzy_match_threshold = FuzzyMatchThreshold
  /\ updated_products = <<>>
  /\ current_product = <<>>
  /\ best_match = <<>>
  /\ best_score = <<0, 1>>
  /\ products = <<>>
  /\ use_exact_matching = TRUE
  /\ similarity_threshold = DefaultThreshold
  /\ duplicates = <<>>
  /\ merged_products = <<>>
  /\ final_products = <<>>
  /\ ScorerIdle /\ NormalizerIdle /\ MappingIdle
  /\ pc = "start"

\* the variables no step of a run writes
RunFixed ==
  <<script, config, existing_data, backup_data, fuzzy_match_threshold,
    current_products, current_product, best_match, best_score,
    use_exact_matching, similarity_threshold,
    scorer_vars, normalizer_vars, mapping_vars>>

\* steps 1 and 2: process_existing_data on the rows of the sheet
ProcessExistingData ==
  /\ pc = "start"
  /\ products' = process_existing_data(existing_data)
  /\ stages' = Append(stages, "process_existing_data")
  /\ pc' = "processed"
  /\ UNCHANGED <<duplicates, merged_products, final_products, updated_products,
                 backup_column_mapping, confirm, sheet_updates,
                 duplicate_row_indices, delete_requests, RunFixed>>

\* run_exact_duplicate_removal, when enabled
OrchestratorExactDuplicateRemoval ==
  /\ script = "orchestrator"
  /\ pc = "processed"
  /\ IF config.run_exact_duplicate_removal
     THEN /\ products' = remove_duplicates(products, TRUE, similarity_threshold)
          /\ stages' = Append(stages, "exact_duplicate_removal")
     ELSE UNCHANGED <<products, stages>>
  /\ pc' = "exact_removal_done"
  /\ UNCHANGED <<duplicates, merged_products, final_products, updated_products,
                 backup_column_mapping, confirm, sheet_updates,
                 duplicate_row_indices, delete_requests, RunFixed>>

\* run_duplicate_detection, when enabled
OrchestratorDuplicateDetection ==
  /\ script = "orchestrator"
  /\ pc = "exact_removal_done"
  /\ IF config.run_duplicate_detection
     THEN /\ duplicates' = find_duplicates(products, config.use_exact_duplicate_matching,
                                           similarity_threshold)
          /\ products' = IF duplicates' # <<>> THEN merge_duplicates(duplicates')
                         ELSE products
          /\ stages' = Append(stages, "duplicate_detection")
     ELSE UNCHANGED <<duplicates, products, stages>>
  /\ pc' = "detection_done"
  /\ UNCHANGED <<merged_products, final_products, updated_products,
                 backup_column_mapping, confirm, sheet_updates,
                 duplicate_row_indices, delete_requests, RunFixed>>

\* run_brand_normalization, when enabled
OrchestratorBrandNormalization ==
  /\ script = "orchestrator"
  /\ pc = "detection_done"
  /\ IF config.run_brand_normalization
     THEN /\ products' = normalize_brand_alternatives(products)
          /\ stages' = Append(stages, "brand_normalization")
     ELSE UNCHANGED <<products, stages>>
  /\ pc' = "normalization_done"
  /\ UNCHANGED <<duplicates, merged_products, final_products, updated_products,
                 backup_column_mapping, confirm, sheet_updates,
                 duplicate_row_indices, delete_requests, RunFixed>>

\* get_backup_sheet_data: the column mapping of the header row of the backup
BackupMappingOf(data) ==
  IF data = <<>> THEN <<>> ELSE get_column_mapping(data[1])

\* run_backup_restoration, when enabled; the ValueError of
\* restore_from_backup ends the run
OrchestratorBackupRestoration ==
  /\ script = "orchestrator"
  /\ pc = "normalization_done"
  /\ IF config.run_backup_restoration
     THEN /\ backup_column_mapping' = BackupMappingOf(backup_data)
          /\ stages' = Append(stages, "backup_restoration")
          /\ IF RestoreRaises(backup_data, backup_column_mapping')
             THEN /\ pc' = "raised"
                  /\ UNCHANGED products
             ELSE /\ products' = restore_from_backup(products, backup_data,
                                                     backup_column_mapping',
                                                     fuzzy_match_threshold)
                  /\ pc' = "restoration_done"
     ELSE /\ pc' = "restoration_done"
          /\ UNCHANGED <<backup_column_mapping, products, stages>>
  /\ UNCHANGED <<duplicates, merged_products, final_products, updated_products,
                 confirm, sheet_updates, duplicate_row_indices, delete_requests,
                 RunFixed>>

\* run_sheet_update: the sheet is written when the update is on, test_mode is
\* off and the operator types YES
OrchestratorSheetUpdate ==
  /\ script = "orchestrator"
  /\ pc = "restoration_done"
  /\ IF SheetUpdateEnabled(config)
     THEN /\ confirm' \in ConfirmInputs
          /\ IF confirm' # "YES"
             THEN UNCHANGED <<stages, sheet_updates>>
             ELSE /\ stages' = Append(stages, "update_sheet")
                  /\ sheet_updates' = sheet_updates + 1
     ELSE UNCHANGED <<confirm, stages, sheet_updates>>
  /\ pc' = "done"
  /\ UNCHANGED <<products, duplicates, merged_products, final_products,
                 updated_products, backup_column_mapping, duplicate_row_indices,
                 delete_requests, RunFixed>>

NextOrchestrator ==
  \/ ProcessExistingData
  \/ OrchestratorExactDuplicateRemoval
  \/ OrchestratorDuplicateDetection
  \/ OrchestratorBrandNormalization
  \/ OrchestratorBackupRestoration
  \/ OrchestratorSheetUpdate

SpecOrchestrator == InitOrchestrator /\ [][NextOrchestrator]_vars

(***************************************************************************)
(* A run of run_duplicate_removal.main or of run_backup_restoration.main.  *)
(***************************************************************************)
\* the start of a run of a script on a sheet of at most n data rows of the
\* pool, or on a sheet without any row
InitRun(the_script, flags, pool, n) ==
  /\ script = the_script
  /\ config \in flags
  /\ \/ existing_data = <<>>
     \/ \E k \in 0..n :
          \E rows \in [1..k -> pool] : existing_data = <<RunHeader>> \o rows
  /\ backup_data \in (IF the_script = "duplicate_removal" THEN {<<>>} ELSE RunBackups)
  /\ confirm = ""
  /\ stages = <<>>
  /\ sheet_updates = 0
  /\ duplicate_row_indices = <<>>
  /\ delete_requests = <<>>
  /\ current_products = <<>>
  /\ backup_column_mapping = <<>>
  /\ fuzzy_match_threshold = FuzzyMatchThreshold
  /\ updated_products = <<>>
  /\ current_product = <<>>
  /\ best_match = <<>>
  /\ best_score = <<0, 1>>
  /\ products = <<>>
  /\ use_exact_matching = TRUE
  /\ similarity_threshold = DefaultThreshold
  /\ duplicates = <<>>
  /\ merged_products = <<>>
  /\ final_products = <<>>
  /\ ScorerIdle /\ NormalizerIdle /\ MappingIdle
  /\ pc = "start"

\* the flags the duplicate-removal script reads
RemovalFlags ==
  {c \in ConfigFlags :
     /\ ~c.run_exact_duplicate_removal /\ ~c.run_duplicate_detection
     /\ ~c.run_brand_normalization /\ ~c.run_backup_restoration}

\* the flags the backup-restoration script reads
RestorationFlags == {c \in RemovalFlags : c.use_exact_duplicate_matching}

\* find_exact_duplicates and the marking of the rows to remove
MarkDuplicateRows ==
  /\ script = "duplicate_removal"
  /\ pc = "processed"
  /\ duplicates' = find_exact_duplicates(products)
  /\ duplicate_row_indices' = MarkedRows(products, duplicates')
  /\ stages' = Append(stages, "find_exact_duplicates")
  /\ pc' = "marked"
  /\ UNCHANGED <<products, merged_products, final_products, updated_products,
                 backup_column_mapping, confirm, sheet_updates, delete_requests,
                 RunFixed>>

\* cleaned_products = remove_duplicates(processed_products, ...)
ScriptRemoveDuplicates ==
  /\ script = "duplicate_removal"
  /\ pc = "marked"
  /\ final_products' = remove_duplicates(products, config.use_exact_duplicate_matching,
                                         similarity_threshold)
  /\ stages' = Append(stages, "remove_duplicates")
  /\ pc' = "cleaned"
  /\ UNCHANGED <<products, duplicates, merged_products, updated_products,
                 backup_column_mapping, confirm, sheet_updates,
                 duplicate_row_indices, delete_requests, RunFixed>>

\* the update of the sheet by the duplicate-removal script: update_sheet
\* returns at once on a sheet without rows, and else removes the marked rows,
\* which sorts duplicate_row_indices in place
RemovalScriptSheetUpdate ==
  /\ script = "duplicate_removal"
  /\ pc = "cleaned"
  /\ IF SheetUpdateEnabled(config)
     THEN /\ confirm' \in ConfirmInputs
          /\ IF confirm' = "YES"
             THEN /\ stages' = Append(stages, "update_sheet")
                  /\ sheet_updates' = sheet_updates + 1
                  /\ IF existing_data # <<>> /\ duplicate_row_indices # <<>>
                     THEN /\ duplicate_row_indices' = SortedDescending(duplicate_row_indices)
                          /\ delete_requests' = DeleteRequests(duplicate_row_indices)
                     ELSE UNCHANGED <<duplicate_row_indices, delete_requests>>
             ELSE UNCHANGED <<stages, sheet_updates, duplicate_row_indices,
                              delete_requests>>
     ELSE UNCHANGED <<confirm, stages, sheet_updates, duplicate_row_indices,
                      delete_requests>>
  /\ pc' = "done"
  /\ UNCHANGED <<products, duplicates, merged_products, final_products,
                 updated_products, backup_column_mapping, RunFixed>>

\* get_backup_sheet_data and restore_from_backup of the backup-restoration
\* script; the ValueError of restore_from_backup ends the run
ScriptRestoreFromBackup ==
  /\ script = "backup_restoration"
  /\ pc = "processed"
  /\ backup_column_mapping' = BackupMappingOf(backup_data)
  /\ stages' = Append(stages, "restore_from_backup")
  /\ IF RestoreRaises(backup_data, backup_column_mapping')
     THEN /\ pc' = "raised"
          /\ UNCHANGED updated_products
     ELSE /\ updated_products' = restore_from_backup(products, backup_data,
                                                     backup_column_mapping',
                                                     fuzzy_match_threshold)
          /\ pc' = "restored"
  /\ UNCHANGED <<products, duplicates, merged_products, final_products, confirm,
                 sheet_updates, duplicate_row_indices, delete_requests, RunFixed>>

\* the update of the sheet by the backup-restoration script
RestorationScriptSheetUpdate ==
  /\ script = "backup_restoration"
  /\ pc = "restored"
  /\ IF SheetUpdateEnabled(config)
     THEN /\ confirm' \in ConfirmInputs
          /\ IF confirm' = "YES"
             THEN /\ stages' = Append(stages, "update_sheet")
                  /\ sheet_updates' = sheet_updates + 1
             ELSE UNCHANGED <<stages, sheet_updates>>
     ELSE UNCHANGED <<confirm, stages, sheet_updates>>
  /\ pc' = "done"
  /\ UNCHANGED <<products, duplicates, merged_products, final_products,
                 updated_products, backup_column_mapping, duplicate_row_indices,
                 delete_requests, RunFixed>>

MaxRows == 3

\* data rows of the sheet of the duplicate-removal script: a product, its
\* repetition, its repetition with a space before the brand, a row of two
\* cells, a row without names, another product
RemovalRowPool ==
  {<<<<"B", "a", "i", "l", "e", "y", "s">>, <<"c">>, "11", "u1", "701">>,
   <<<<"B", "a", "i", "l", "e", "y", "s">>, <<"c">>, "12">>,
   <<<<" ", "b", "a", "i", "l", "e", "y", "s">>, <<"c">>, "13">>,
   <<<<"B", "a", "i", "l", "e", "y", "s">>, <<"c">>>>,
   <<<<>>, <<>>, "14">>,
   <<<<"B", "a", "i", "l", "e", "y", "'", "s">>, <<"c">>, "15">>}

InitRemoval == InitRun("duplicate_removal", RemovalFlags, RemovalRowPool, MaxRows)

NextRemoval ==
  \/ ProcessExistingData
  \/ MarkDuplicateRows
  \/ ScriptRemoveDuplicates
  \/ RemovalScriptSheetUpdate

SpecRemoval == InitRemoval /\ [][NextRemoval]_vars

\* the three programs that write the sheet
InitRuns ==
  \/ InitOrchestrator
  \/ InitRun("duplicate_removal", RemovalFlags, RunRowPool, MaxCurrent)
  \/ InitRun("backup_restoration", RestorationFlags, RunRowPool, MaxCurrent)

NextRuns ==
  \/ ProcessExistingData
  \/ OrchestratorExactDuplicateRemoval
  \/ OrchestratorDuplicateDetection
  \/ OrchestratorBrandNormalization
  \/ OrchestratorBackupRestoration
  \/ OrchestratorSheetUpdate
  \/ MarkDuplicateRows
  \/ ScriptRemoveDuplicates
  \/ RemovalScriptSheetUpdate
  \/ ScriptRestoreFromBackup
  \/ RestorationScriptSheetUpdate

SpecRuns == InitRuns /\ [][NextRuns]_vars

(***************************************************************************)
(* Vocabulary of the properties.                                           *)
(***************************************************************************)
\* the places <<g, k>> of the members of a list of clusters
ClusterPlaces(dups) ==
  UNION {{<<g, k>> : k \in 1..Len(dups[g])} : g \in 1..Len(dups)}

\* the places at which a record sits in the clusters found
PlacesOf(p) == {gk \in ClusterPlaces(duplicates) : duplicates[gk[1]][gk[2]] = p}

\* the clusters a record is a member of
ClustersOf(p) == {gk[1] : gk \in PlacesOf(p)}

\* the record has a brand and a product name once trimmed
Keyed(p) == Strip(p.brand_name) # <<>> /\ Strip(p.product_name) # <<>>

\* lower(trim(brand_name)) + "|" + lower(trim(product_name))
TrimmedKey(p) == JoinBar(Lower(Strip(p.brand_name)), Lower(Strip(p.product_name)))

\* the merged record of the non-empty cluster g
MergedOf(g) ==
  merged_products[Cardinality({h \in 1..g : duplicates[h] # <<>>})]

\* an output record covers an input record
Covers(out, p) ==
  IF ClustersOf(p) = {} THEN out = p
  ELSE \E g \in ClustersOf(p) : out = MergedOf(g)

\* every input record is covered by exactly one record handed on
EveryRecordCoveredOnce ==
  /\ \A i \in 1..Len(products) :
       /\ Cardinality(ClustersOf(products[i])) <= 1
       /\ Cardinality({o \in 1..Len(final_products) :
                         Covers(final_products[o], products[i])}) = 1
  /\ Len(final_products) =
       Len(products) - (Cardinality(ClusterPlaces(duplicates)) - Len(duplicates))

Merged == pc \in {"merged", "lcbo_merged"}

NonEmptyClusters == {g \in 1..Len(duplicates) : duplicates[g] # <<>>}

Members(g) == {duplicates[g][k] : k \in 1..Len(duplicates[g])}

\* the member the merged record was copied from
BaseOf(g) == CHOOSE b \in Members(g) : b.row = MergedOf(g).row

\* the place of a member in its cluster
PlaceIn(g, x) == CHOOSE k \in 1..Len(duplicates[g]) : duplicates[g][k] = x

HasImage(p) == p.image_url # ""
HasPrice(p) == p.price # ""
FromLcbo(p) == p.source = "LCBO"

FillFields == {"image_url", "price", "lcbo_id"}

(***************************************************************************)
(* Properties.                                                             *)
(***************************************************************************)
\* C1: the clusters find_exact_duplicates returns partition: no record sits at
\* two places of the clusters, every member is an input record, and a record
\* with a non-empty trimmed brand and product name sits at exactly one place
\* when another record shares its key and at none otherwise.
ExactClustersPartition ==
  (pc = "found" /\ use_exact_matching) =>
    /\ \A gk \in ClusterPlaces(duplicates) :
         \E i \in 1..Len(products) : duplicates[gk[1]][gk[2]] = products[i]
    /\ \A i \in 1..Len(products) :
         LET p == products[i]
             shared == \E j \in 1..Len(products) :
                          j # i /\ Keyed(products[j]) /\ TrimmedKey(products[j]) = TrimmedKey(p)
         IN  /\ Cardinality(PlacesOf(p)) <= 1
             /\ Keyed(p) => Cardinality(PlacesOf(p)) = IF shared THEN 1 ELSE 0

\* C1 happens: one cluster of two and a keyed record left alone
ExactClustersPartitionSeen ==
  /\ pc = "found" /\ use_exact_matching
  /\ Len(products) = 3
  /\ Len(duplicates) = 1 /\ Len(duplicates[1]) = 2
  /\ \E i \in 1..3 : Keyed(products[i]) /\ PlacesOf(products[i]) = {}

\* C2: in exact mode two records are in one cluster if and only if both have a
\* non-empty trimmed brand and product name and equal keys; a record without
\* brand or without product is in no cluster; and the three Smirnoff records
\* give exactly one cluster, of the first two.
ExactSameClusterIffSameKey ==
  (pc = "found" /\ use_exact_matching) =>
    /\ \A i, j \in 1..Len(products) :
         i # j =>
           ((ClustersOf(products[i]) \cap ClustersOf(products[j]) # {})
              <=> (/\ Keyed(products[i])
                   /\ Keyed(products[j])
                   /\ TrimmedKey(products[i]) = TrimmedKey(products[j])))
    /\ \A i \in 1..Len(products) :
         ~Keyed(products[i]) => ClustersOf(products[i]) = {}
    /\ products = SmirnoffExample => duplicates = <<<<products[1], products[2]>>>>

\* C2 happens: the Smirnoff records have been grouped
ExactSmirnoffSeen ==
  /\ pc = "found" /\ use_exact_matching
  /\ products = SmirnoffExample
  /\ Len(duplicates) = 1

\* C3: remove_duplicates, in either mode, covers every input record exactly
\* once: a record in no cluster is in the output itself, a record in a cluster
\* is covered by the one merged record of that cluster, and the output is
\* shorter than the input by the sum of (cluster size - 1).
RemoveCoversEveryRecordOnce == pc = "removed" => EveryRecordCoveredOnce

\* C4: the duplicate-detection stage (run_duplicate_detection with the stage
\* on, and steps 6 to 8 of the LCBO run) hands on a record set that covers
\* every input record exactly once.
DetectionCoversEveryRecordOnce ==
  pc \in {"detected", "lcbo_done"} => EveryRecordCoveredOnce

\* C5: merging never loses a populated image_url: when a member of a non-empty
\* cluster has one, so has the merged record, under either merger.
MergeKeepsImage ==
  Merged =>
    \A g \in NonEmptyClusters :
      (\E x \in Members(g) : HasImage(x)) => HasImage(MergedOf(g))

\* C5 happens: the base had no image_url and the merged record has one
MergeKeepsImageSeen ==
  /\ Merged
  /\ \E g \in NonEmptyClusters : ~HasImage(BaseOf(g)) /\ HasImage(MergedOf(g))

\* C6: the merged record equals the chosen base on every field, except that
\* image_url, price and lcbo_id may differ where the base's value is empty.
MergeChangesOnlyEmptyFillFields ==
  Merged =>
    \A g \in NonEmptyClusters :
      LET base == IF pc = "merged" THEN SortedGroup(duplicates[g])[1]
                  ELSE LcboSortedGroup(duplicates[g])[1]
          m == MergedOf(g)
      IN  /\ DOMAIN m = DOMAIN base
          /\ \A f \in DOMAIN base :
               (f \notin FillFields \/ base[f] # "") => m[f] = base[f]

\* C6 happens: the base kept its own image_url and price although another
\* member carries other ones, and got its lcbo_id filled
MergeChangesOnlyEmptyFillFieldsSeen ==
  /\ Merged
  /\ \E g \in NonEmptyClusters :
       /\ HasImage(BaseOf(g)) /\ HasPrice(BaseOf(g)) /\ BaseOf(g).lcbo_id = ""
       /\ MergedOf(g).lcbo_id # ""
       /\ \E x \in Members(g) : x # BaseOf(g) /\ HasImage(x) /\ HasPrice(x)

\* C7: among the members that tie on the earlier precedence keys (source,
\* has image_url, has price), the one with the longer product_name is the base.
BaseHasLongerName ==
  Merged =>
    \A g \in NonEmptyClusters :
      \A x \in Members(g) :
        (/\ pc = "lcbo_merged" => FromLcbo(x) = FromLcbo(BaseOf(g))
         /\ HasImage(x) = HasImage(BaseOf(g))
         /\ HasPrice(x) = HasPrice(BaseOf(g)))
          => Len(x.product_name) <= Len(BaseOf(g).product_name)

\* C8 as stated: under either merger an LCBO member is the base ahead of every
\* member that is not.
PrimarySourceFirst ==
  Merged =>
    \A g \in NonEmptyClusters :
      (\E x \in Members(g) : FromLcbo(x)) => FromLcbo(BaseOf(g))

\* C8 amended: DataIntegrityProcessor.merge_duplicates puts an LCBO member
\* ahead of every member that is not, whatever their image_url, price and
\* name, and lets image_url, then price, decide among members of equal source;
\* AlcoholDataProcessor.merge_duplicates does not read source: image_url, then
\* price, decide among all members.
PrimarySourceFirstInLcboMerger ==
  Merged =>
    \A g \in NonEmptyClusters :
      \A x \in Members(g) :
        LET b == BaseOf(g)
            completeness == /\ HasImage(x) => HasImage(b)
                            /\ HasImage(x) = HasImage(b) => (HasPrice(x) => HasPrice(b))
        IN  IF pc = "lcbo_merged"
            THEN /\ FromLcbo(x) => FromLcbo(b)
                 /\ FromLcbo(x) = FromLcbo(b) => completeness
            ELSE completeness

\* C8 amended happens: an LCBO member without image_url and price is the base
\* although another member has both
PrimarySourceFirstInLcboMergerSeen ==
  /\ pc = "lcbo_merged"
  /\ \E g \in NonEmptyClusters :
       /\ FromLcbo(BaseOf(g)) /\ ~HasImage(BaseOf(g)) /\ ~HasPrice(BaseOf(g))
       /\ \E x \in Members(g) : ~FromLcbo(x) /\ HasImage(x) /\ HasPrice(x)

\* the value a field gets from the first of the given members, taken in the
\* cluster's order, that has one
FirstInClusterOrder(g, f) ==
  LET donors == {x \in Members(g) : x # BaseOf(g) /\ x[f] # ""}
  IN  IF donors = {} THEN ""
      ELSE (CHOOSE x \in donors :
              \A y \in donors : PlaceIn(g, x) <= PlaceIn(g, y))[f]

\* the precedence key of the merger that ran
KeyOf(p) == IF pc = "lcbo_merged" THEN LcboSortKey(p) ELSE SortKey(p)

\* the value a field gets from the first donor in precedence order: the
\* smallest key, and among equal keys the earliest in the cluster
FirstInPrecedenceOrder(g, f) ==
  LET donors == {x \in Members(g) : x # BaseOf(g) /\ x[f] # ""}
  IN  IF donors = {} THEN ""
      ELSE (CHOOSE x \in donors :
              \A y \in donors :
                \/ x = y
                \/ TupleLess(KeyOf(x), KeyOf(y))
                \/ (KeyOf(x) = KeyOf(y) /\ PlaceIn(g, x) < PlaceIn(g, y)))[f]

FuzzyClustersAreStars ==
  (pc = "found" /\ ~use_exact_matching) =>
    \A g \in 1..Len(duplicates) :
      \A k \in 1..Len(duplicates[g]) :
        LET first == duplicates[g][1]
            member == duplicates[g][k]
        IN  /\ Lower(member.brand_name) = Lower(first.brand_name)
            /\ k > 1 =>
                 /\ first.product_name # <<>> /\ member.product_name # <<>>
                 /\ RatioAtLeast(Ratio(Lower(first.product_name),
                                       Lower(member.product_name)),
                                 similarity_threshold)

\* C10 happens: a cluster of three whose second and third members do not
\* score the threshold against each other
FuzzyClustersAreStarsSeen ==
  /\ pc = "found" /\ ~use_exact_matching
  /\ \E g \in 1..Len(duplicates) :
       /\ Len(duplicates[g]) = 3
       /\ ~RatioAtLeast(Ratio(Lower(duplicates[g][2].product_name),
                              Lower(duplicates[g][3].product_name)),
                        similarity_threshold)

\* C11: the clusters of fuzzy-mode find_duplicates are pairwise disjoint and
\* each has at least two members: no input record sits at two places of the
\* clusters, so a record claimed by one cluster neither heads nor joins a
\* later one.
FuzzyClustersDisjoint ==
  (pc = "found" /\ ~use_exact_matching) =>
    /\ \A g \in 1..Len(duplicates) : Len(duplicates[g]) >= 2
    /\ \A i \in 1..Len(products) : Cardinality(PlacesOf(products[i])) <= 1
    /\ \A gk \in ClusterPlaces(duplicates) :
         \E i \in 1..Len(products) : duplicates[gk[1]][gk[2]] = products[i]

\* C11 happens: the second member of the one cluster found scores the
\* threshold against a later record of its brand, which the head did not
\* claim, and yet heads no cluster with it
FuzzyClustersDisjointSeen ==
  /\ pc = "found" /\ ~use_exact_matching
  /\ Len(products) = 3
  /\ duplicates = <<<<products[1], products[2]>>>>
  /\ Lower(products[3].brand_name) = Lower(products[2].brand_name)
  /\ Similar(products[2], products[3], similarity_threshold)
  /\ ~Similar(products[1], products[3], similarity_threshold)

\* the backup products restore_from_backup builds from the backup sheet
BackupProductsBuilt == BackupProducts(backup_data, backup_column_mapping)

\* the averages of a record over the matching fields with each backup product
Averages(record) ==
  LET backup_products == BackupProductsBuilt
  IN  [j \in 1..Len(backup_products) |-> AvgScore(record, backup_products[j])]

\* the positions of the backup products whose average is at least the
\* threshold and greater than 0
QualifyingOf(avg) ==
  {j \in DOMAIN avg :
     RatioAtLeast(avg[j], fuzzy_match_threshold) /\ RatLess(<<0, 1>>, avg[j])}

Qualifying(record) == QualifyingOf(Averages(record))

\* the position of the backup product a record is matched with: the highest
\* average among the qualifying ones, the first of them on ties; 0 when none
\* qualifies
MatchOf(record) ==
  LET avg == Averages(record)
      qualifying == QualifyingOf(avg)
  IN  IF qualifying = {} THEN 0
      ELSE CHOOSE j \in qualifying :
             \A k \in qualifying :
               /\ ~RatLess(avg[j], avg[k])
               /\ RatEq(avg[k], avg[j]) => j <= k

\* C12: find_best_match returns the backup product with the highest average
\* similarity over the matching fields among those whose average is at least
\* the threshold and greater than 0, the first such product on ties, and that
\* average; when no backup product qualifies it returns None and 0.0.
BestMatchIsHighestQualifying ==
  pc = "matched" =>
    LET m == MatchOf(current_product)
    IN  IF m = 0
        THEN best_match = <<>> /\ best_score = <<0, 1>>
        ELSE /\ best_match = BackupProductsBuilt[m]
             /\ RatEq(best_score, AvgScore(current_product, BackupProductsBuilt[m]))

\* C12 happens: two different backup products qualify with equal averages and
\* the first one is returned
BestMatchIsHighestQualifyingSeen ==
  /\ pc = "matched"
  /\ Qualifying(current_product) = {1, 2}
  /\ BackupProductsBuilt[1] # BackupProductsBuilt[2]
  /\ RatEq(AvgScore(current_product, BackupProductsBuilt[1]),
           AvgScore(current_product, BackupProductsBuilt[2]))
  /\ best_match = BackupProductsBuilt[1]

RestoredFields == {"gluten_free_score", "descriptors"}

\* C13: restore_from_backup never overwrites with empty: when the value of
\* gluten_free_score or descriptors of the backup product matched with a
\* current record is empty or only whitespace, or the backup product has no
\* such field, the record keeps its own value of that field.
RestoreNeverOverwritesWithEmpty ==
  pc = "restored" =>
    \A i \in 1..Len(current_products) :
      LET m == MatchOf(current_products[i])
      IN  \A f \in RestoredFields :
            (m # 0 /\ Strip(Get(BackupProductsBuilt[m], f)) = <<>>)
              => updated_products[i][f] = current_products[i][f]

\* C13 happens: the matched backup product has descriptors of whitespace only,
\* the record keeps its own, not empty, descriptors and takes the score
RestoreNeverOverwritesWithEmptySeen ==
  /\ pc = "restored"
  /\ \E i \in 1..Len(current_products) :
       /\ MatchOf(current_products[i]) # 0
       /\ Get(BackupProductsBuilt[MatchOf(current_products[i])], "descriptors") = <<" ">>
       /\ current_products[i].descriptors # <<>>
       /\ updated_products[i].descriptors = current_products[i].descriptors
       /\ updated_products[i].gluten_free_score # current_products[i].gluten_free_score

SimilarityBoundedAndAnchored ==
  pc = "scored" =>
    /\ similarity[2] > 0
    /\ 0 <= similarity[1] /\ similarity[1] <= similarity[2]
    /\ (str1 = <<>> \/ str2 = <<>>) => similarity[1] = 0
    /\ (str1 # <<>> /\ str2 # <<>> /\ Lower(Strip(str1)) = Lower(Strip(str2)))
         => similarity[1] = similarity[2]

\* C15 happens: two different strings that differ in case and in surrounding
\* whitespace only score 1.0
SimilarityBoundedAndAnchoredSeen ==
  /\ pc = "scored"
  /\ Strip(str1) # <<>>
  /\ str1 # str2 /\ Strip(str1) # Strip(str2) /\ Lower(str1) # Lower(str2)
  /\ Lower(Strip(str1)) = Lower(Strip(str2))
  /\ similarity[1] = similarity[2]

\* C16: every fuzzy operation scores with the one similarity scorer: the score
\* fuzzy duplicate detection compares with its threshold for two product
\* names, and the score subcategory normalization compares with 0.9 for a
\* subcategory and a key, equal calculate_similarity of the same two strings.
OneSimilarityScorer ==
  pc \in {"duplicate_scored", "subcategory_scored"} =>
    RatEq(similarity, calculate_similarity(str1, str2))

\* the similarity of a trimmed subcategory to each key of the table
TableScores(cleaned) ==
  [i \in 1..Len(SUBCATEGORY_NORMALIZATIONS) |->
     SubcategoryScoreOf(cleaned, SUBCATEGORY_NORMALIZATIONS[i][1])]

\* the positions of the keys whose similarity is the highest of the table
BestKeysOf(score) ==
  {i \in DOMAIN score : \A k \in DOMAIN score : ~RatLess(score[i], score[k])}

\* the canonical values of the table that are no keys of it
CanonicalNotKey ==
  {SUBCATEGORY_NORMALIZATIONS[i][2] : i \in 1..Len(SUBCATEGORY_NORMALIZATIONS)}
    \ SubcategoryKeys

\* C17: normalize_subcategory is idempotent: applied to its own result it
\* returns that result, also when the result is a canonical value of the
\* table that is not itself a key.
NormalizeIdempotent ==
  pc = "normalized_again" => normalized_again = normalized

\* C17 happens: a subcategory that is no key was replaced by a canonical value
\* that is no key, and the second application has run
NormalizeIdempotentSeen ==
  /\ pc = "normalized_again"
  /\ KeyPosition(Strip(subcategory)) = 0
  /\ normalized # Strip(subcategory)
  /\ normalized \in CanonicalNotKey

\* C18: when the trimmed subcategory is no key of the table,
\* normalize_subcategory returns the canonical value of a key with the highest
\* similarity to it if that similarity exceeds 0.9, and the trimmed
\* subcategory otherwise.
NormalizeByBestKey ==
  (pc = "normalized" /\ KeyPosition(Strip(subcategory)) = 0) =>
    \A score \in {TableScores(Strip(subcategory))} :
      IF \E i \in DOMAIN score : RatioAbove(score[i], SubcategoryThreshold)
      THEN \A i \in BestKeysOf(score) : normalized = SUBCATEGORY_NORMALIZATIONS[i][2]
      ELSE normalized = Strip(subcategory)

\* C18 happens: the first key of the table whose similarity exceeds 0.9 is not
\* a key with the highest similarity
NormalizeByBestKeySeen ==
  /\ pc = "normalized"
  /\ KeyPosition(Strip(subcategory)) = 0
  /\ \E first \in {FirstCloseMatch(Strip(subcategory), 1)} :
       /\ first # 0
       /\ \E score \in {TableScores(Strip(subcategory))} : first \notin BestKeysOf(score)

\* the positions of the records whose brand_name is not empty and has the
\* normalized key of the brand_name of the i-th record
SameBrandKey(i) ==
  {j \in 1..Len(products) :
     /\ products[j].brand_name # <<>>
     /\ BrandKey(products[j].brand_name) = BrandKey(products[i].brand_name)}

\* the surface form of the group of the i-th record with the highest score,
\* the first encountered on ties
WinningForm(i) ==
  products[CHOOSE j \in SameBrandKey(i) :
             \A k \in SameBrandKey(i) :
               \/ score_brand(products[k].brand_name) < score_brand(products[j].brand_name)
               \/ (/\ score_brand(products[k].brand_name) = score_brand(products[j].brand_name)
                   /\ j <= k)].brand_name

\* C19: after normalize_brand_alternatives all records whose brand_name has
\* the same normalized key (lower-cased, apostrophes and quotes removed) carry
\* one brand_name, the surface form of the group with the highest score, the
\* first encountered on ties; records with Baileys and Bailey's end with
\* Bailey's.
BrandsConsolidatedToWinner ==
  pc = "brands_normalized" =>
    /\ Len(final_products) = Len(products)
    /\ \A i \in 1..Len(products) :
         products[i].brand_name # <<>> =>
           /\ final_products[i].brand_name = WinningForm(i)
           /\ \A j \in SameBrandKey(i) :
                final_products[j].brand_name = final_products[i].brand_name
    /\ \A i, j \in 1..Len(products) :
         (/\ products[i].brand_name = <<"B", "a", "i", "l", "e", "y", "s">>
          /\ products[j].brand_name = <<"B", "a", "i", "l", "e", "y", "'", "s">>)
           => /\ final_products[i].brand_name = <<"B", "a", "i", "l", "e", "y", "'", "s">>
              /\ final_products[j].brand_name = <<"B", "a", "i", "l", "e", "y", "'", "s">>

\* C19 happens: three spellings of one brand, the last two with the highest
\* score, and every record carries the second
BrandsConsolidatedToWinnerSeen ==
  /\ pc = "brands_normalized"
  /\ Len(products) = 3
  /\ SameBrandKey(1) = {1, 2, 3}
  /\ products[2].brand_name # products[3].brand_name
  /\ score_brand(products[1].brand_name) < score_brand(products[2].brand_name)
  /\ score_brand(products[2].brand_name) = score_brand(products[3].brand_name)
  /\ \A i \in 1..3 : final_products[i].brand_name = products[2].brand_name

\* the canonical fields of the rules of get_column_mapping, in their order
HeaderRuleFields ==
  <<"brand_name", "product_name", "descriptors", "gluten_free_score",
    "gluten_free_score", "id", "lcbo_id", "image_url", "price", "category",
    "subcategory", "source">>

\* the k-th rule of get_column_mapping matches the cleaned header
HeaderRuleMatches(k, header_clean) ==
  LET has(w) == Contains(header_clean, w)
  IN  CASE k = 1 -> has(<<"b", "r", "a", "n", "d">>) /\ (has(<<"n", "a", "m", "e">>) \/ header_clean = <<"b", "r", "a", "n", "d">>)
        [] k = 2 -> has(<<"p", "r", "o", "d", "u", "c", "t">>) /\ (has(<<"n", "a", "m", "e">>) \/ header_clean = <<"p", "r", "o", "d", "u", "c", "t">>)
        [] k = 3 -> has(<<"d", "e", "s", "c", "r", "i", "p", "t", "o", "r">>)
        [] k = 4 -> has(<<"g", "l", "u", "t", "e", "n">>) /\ has(<<"s", "c", "o", "r", "e">>)
        [] k = 5 -> has(<<"g", "l", "u", "t", "e", "n">>) /\ has(<<"f", "r", "e", "e">>)
        [] k = 6 -> header_clean = <<"i", "d">>
        [] k = 7 -> has(<<"l", "c", "b", "o">>) /\ has(<<"i", "d">>)
        [] k = 8 -> has(<<"i", "m", "a", "g", "e">>) /\ has(<<"u", "r", "l">>)
        [] k = 9 -> has(<<"p", "r", "i", "c", "e">>)
        [] k = 10 -> has(<<"c", "a", "t", "e", "g", "o", "r", "y">>) /\ ~has(<<"s", "u", "b">>)
        [] k = 11 -> has(<<"s", "u", "b", "c", "a", "t", "e", "g", "o", "r", "y">>) \/ (has(<<"s", "u", "b">>) /\ has(<<"c", "a", "t", "e", "g", "o", "r", "y">>))
        [] k = 12 -> has(<<"s", "o", "u", "r", "c", "e">>)

\* the rules the i-th header matches
MatchingRules(i) ==
  {k \in 1..Len(HeaderRuleFields) : HeaderRuleMatches(k, HeaderClean(headers[i]))}

\* the field of the first rule from the k-th on that matches the cleaned
\* header, "" when none does
RECURSIVE FirstRuleFrom(_, _)
FirstRuleFrom(k, header_clean) ==
  IF k > Len(HeaderRuleFields) THEN ""
  ELSE IF HeaderRuleMatches(k, header_clean) THEN HeaderRuleFields[k]
  ELSE FirstRuleFrom(k + 1, header_clean)

\* the field of the first rule each header matches
FirstRuleFields ==
  [i \in 1..Len(headers) |-> FirstRuleFrom(1, HeaderClean(headers[i]))]

\* C20: the Field Index of get_column_mapping is well-formed: each header is
\* assigned by the first rule it matches, so to at most one canonical field;
\* no column index is the value of two canonical fields; each mapped canonical
\* field has one column index, which lies within the header row.
FieldIndexWellFormed ==
  pc = "mapped" =>
    \A first \in {FirstRuleFields} :
      /\ \A field \in DOMAIN column_mapping :
           /\ column_mapping[field] \in 0..(Len(headers) - 1)
           /\ first[column_mapping[field] + 1] = field
      /\ \A i \in 1..Len(headers) :
           first[i] # "" => first[i] \in DOMAIN column_mapping
      /\ \A field, other \in DOMAIN column_mapping :
           field # other => column_mapping[field] # column_mapping[other]

\* C20 happens: a header that matches the rules of two fields is mapped to
\* the first of them, and of two headers of one field the later is mapped
FieldIndexWellFormedSeen ==
  /\ pc = "mapped"
  /\ \E i \in 1..Len(headers) :
       /\ \E k, m \in MatchingRules(i) : HeaderRuleFields[k] # HeaderRuleFields[m]
       /\ column_mapping[FirstRuleFields[i]] = i - 1
  /\ \E i, j \in 1..Len(headers) :
       /\ i < j
       /\ FirstRuleFields[i] # ""
       /\ FirstRuleFields[i] = FirstRuleFields[j]
       /\ column_mapping[FirstRuleFields[i]] = j - 1

\* C21: building the Field Index from an empty header row is surfaced as a
\* failure (SchemaError): get_column_mapping does not return a mapping for it.
EmptyHeaderRowIsSchemaError ==
  headers = <<>> => pc # "mapped"

\* C22: an empty Duplicate Cluster that reaches the merger is checked and
\* surfaced as a failure (InvariantViolation): the merger does not return a
\* result for a list that holds an empty cluster.
EmptyClusterIsInvariantViolation ==
  (\E g \in 1..Len(duplicates) : duplicates[g] = <<>>) => pc # "merged"

\* C23: restore_from_backup raises no error when canonical fields are unmapped
\* in the backup dataset, also when the backup header row maps no canonical
\* field at all and the backup has data rows: the call returns, and with an
\* empty mapping every current record is returned unmodified.
RestoreToleratesUnmappedFields ==
  /\ pc # "restore_raised"
  /\ (pc = "restored" /\ DOMAIN backup_column_mapping = {})
       => updated_products = current_products

\* a backup record of every data row, each missing cell read as empty string
RowRecords ==
  [k \in 1..(Len(backup_data) - 1) |->
     BackupProduct(backup_data[k + 1], backup_column_mapping)]

\* C24: a data row of the backup that has fewer cells than the highest mapped
\* column index still yields a backup record, each missing cell read as empty
\* string, and that record takes part in matching: the current records are
\* restored from the records of all data rows.
ShortRowsYieldBackupRecords ==
  pc = "restored" =>
    /\ BackupProductsBuilt = RowRecords
    /\ updated_products =
         [i \in 1..Len(current_products) |->
            RestoreProduct(current_products[i], RowRecords, fuzzy_match_threshold)]

\* the stages of a run that group duplicates
GroupingStages == {"exact_duplicate_removal", "duplicate_detection"}

\* C25: in every run of the orchestrator with the stages enabled, brand
\* normalization happens before duplicate grouping and merging, which happen
\* before backup reconciliation, and no grouping step runs on records whose
\* brands have not been normalized yet.
NormalizeThenGroupThenRestore ==
  /\ \A i, j \in 1..Len(stages) :
       /\ (stages[i] = "brand_normalization" /\ stages[j] \in GroupingStages) => i < j
       /\ (stages[i] \in GroupingStages /\ stages[j] = "backup_restoration") => i < j
  /\ config.run_brand_normalization =>
       \A j \in 1..Len(stages) :
         stages[j] \in GroupingStages =>
           \E i \in 1..(j - 1) : stages[i] = "brand_normalization"

\* C26: any two records of one exact-mode cluster have equal
\* lower(trim(brand_name)) and equal lower(trim(product_name)), also when a
\* value contains the separator "|" of the key.
SameClusterSameNames ==
  (pc = "found" /\ use_exact_matching) =>
    \A g \in 1..Len(duplicates) :
      \A k, m \in 1..Len(duplicates[g]) :
        /\ Lower(Strip(duplicates[g][k].brand_name))
             = Lower(Strip(duplicates[g][m].brand_name))
        /\ Lower(Strip(duplicates[g][k].product_name))
             = Lower(Strip(duplicates[g][m].product_name))

\* C27: remove_duplicates reaches a fixed point in one pass: in either mode
\* find_duplicates, with the same mode and threshold, finds no cluster in the
\* output of remove_duplicates, and remove_duplicates applied to its output
\* returns the same records.
RemoveDuplicatesFixedPoint ==
  pc = "removed" =>
    /\ find_duplicates(final_products, use_exact_matching, similarity_threshold) = <<>>
    /\ remove_duplicates(final_products, use_exact_matching, similarity_threshold)
         = final_products

\* C27, exact mode: find_duplicates finds no cluster in the output of
\* remove_duplicates, and remove_duplicates applied to its output returns the
\* same records.
RemoveDuplicatesExactFixedPoint ==
  (pc = "removed" /\ use_exact_matching) =>
    /\ find_duplicates(final_products, TRUE, similarity_threshold) = <<>>
    /\ remove_duplicates(final_products, TRUE, similarity_threshold) = final_products

\* C27 happens: exact mode has merged a cluster and kept a record beside it
RemoveDuplicatesExactFixedPointSeen ==
  /\ pc = "removed" /\ use_exact_matching
  /\ Len(products) = 3
  /\ Len(duplicates) = 1
  /\ Len(final_products) = 2

\* C28: in fuzzy mode, as in exact mode, a record whose brand_name is empty
\* never appears in a cluster find_duplicates returns.
NoEmptyBrandInClusters ==
  pc = "found" =>
    \A g \in 1..Len(duplicates) :
      \A k \in 1..Len(duplicates[g]) : duplicates[g][k].brand_name # <<>>

\* the product process_existing_data makes of the sheet row of number r, the
\* header being row 1
SheetRowProduct(r) ==
  ExistingProduct(existing_data[r], get_column_mapping(existing_data[1]))

\* the sheet row of number r became a product that has a key
SheetRowKeyed(r) ==
  /\ r \in 2..Len(existing_data)
  /\ RowIsProcessed(existing_data[r], get_column_mapping(existing_data[1]))
  /\ ExactKey(SheetRowProduct(r)) # <<>>

\* the sheet row of number r repeats the key of a row above it
SheetRowRepeats(r) ==
  /\ SheetRowKeyed(r)
  /\ \E q \in 2..(r - 1) :
       /\ SheetRowKeyed(q)
       /\ ExactKey(SheetRowProduct(q)) = ExactKey(SheetRowProduct(r))

\* C29: in the duplicate-removal script every index of duplicate_row_indices
\* designates, as sheet row index + 2, a data row that repeats the key of a
\* row above it; the first row of a key is never marked; with exact matching
\* as many rows are marked as remove_duplicates removes records; and the
\* deletions are issued from the bottom of the sheet upwards
MarkedRowsAreLaterDuplicates ==
  (script = "duplicate_removal" /\ pc \in {"marked", "cleaned", "done"}) =>
    /\ \A k \in 1..Len(duplicate_row_indices) :
         SheetRowRepeats(duplicate_row_indices[k] + 2)
    /\ \A r \in 2..Len(existing_data) :
         (SheetRowKeyed(r) /\ ~SheetRowRepeats(r)) =>
           \A k \in 1..Len(duplicate_row_indices) : duplicate_row_indices[k] + 2 # r
    /\ (pc \in {"cleaned", "done"} /\ config.use_exact_duplicate_matching) =>
         Len(duplicate_row_indices) = Len(products) - Len(final_products)
    /\ \A k \in 1..(Len(delete_requests) - 1) :
         delete_requests[k] > delete_requests[k + 1]

\* the stages a run goes through before it may write the sheet
StagesBeforeUpdate ==
  IF script = "orchestrator"
  THEN {"process_existing_data"}
       \cup (IF config.run_exact_duplicate_removal THEN {"exact_duplicate_removal"} ELSE {})
       \cup (IF config.run_duplicate_detection THEN {"duplicate_detection"} ELSE {})
       \cup (IF config.run_brand_normalization THEN {"brand_normalization"} ELSE {})
       \cup (IF config.run_backup_restoration THEN {"backup_restoration"} ELSE {})
  ELSE IF script = "duplicate_removal"
  THEN {"process_existing_data", "find_exact_duplicates", "remove_duplicates"}
  ELSE {"process_existing_data", "restore_from_backup"}

\* C30: in a run of the orchestrator, of the duplicate-removal script or of the
\* backup-restoration script update_sheet is called at most once, as the last
\* stage after every stage of the run, and only when run_sheet_update is on,
\* test_mode is off and the operator typed exactly YES; else the sheet is
\* never written
SheetWrittenOnceWhenConfirmed ==
  /\ sheet_updates <= 1
  /\ sheet_updates = Cardinality({k \in 1..Len(stages) : stages[k] = "update_sheet"})
  /\ \A k \in 1..Len(stages) :
       stages[k] = "update_sheet" =>
         /\ k = Len(stages)
         /\ {stages[m] : m \in 1..(k - 1)} = StagesBeforeUpdate
  /\ sheet_updates = 1 =>
       /\ pc = "done"
       /\ config.run_sheet_update
       /\ ~config.test_mode
       /\ confirm = "YES"

SheetWrittenOnceWhenConfirmedSeen ==
  /\ script \in {"duplicate_removal", "backup_restoration"}
  /\ sheet_updates = 1
  /\ confirm = "YES"
  /\ stages[Len(stages)] = "update_sheet"
====
